---------------------------- MODULE Spec2Model ----------------------------
(***************************************************************************)
(* A model of agentkit-mesh: the resource/URI matcher and the discovery    *)
(* engine (src/src/discovery.ts, first DiscoveryEngine), the HTTP          *)
(* delegation client (src/src/delegation.ts, second DelegationClient) and  *)
(* the mesh HTTP server with its delegation ledger (src/unnamed/part_007,  *)
(* second AgentRegistry and second createHttpServer).                      *)
(*                                                                         *)
(* JavaScript strings are sequences of one-character strings, so that      *)
(* startsWith, endsWith, slice, includes, split and URL parsing are        *)
(* computed on the characters.                                             *)
(***************************************************************************)
EXTENDS Integers, Sequences, FiniteSets, TLC

VARIABLES
  matchCall,    \* one call of uriMatches: its arguments and what it returned
  agents,       \* the registry's agents table: name -> AgentRecord
  lastRegister, \* the call of register that is returning: its input and result
  lastDiscover, \* the latest call of discover: its arguments and its result
  loreCall,     \* one call of LoreDiscoveryEngine.discover: its progress and result
  calls,        \* the invocations of DelegationClient.delegate: call -> its progress
  requests,     \* the requests fetch has sent, in order
  delegations,  \* the registry's delegations table (the ledger): id -> row
  routes,       \* the requests to POST /v1/delegate and the calls of the
                \* mesh_delegate tool: their progress and answer
  deliveries,   \* the requests to POST /v1/delegations/:id/result
  lastWrite,    \* the latest direct call of logDelegation or updateDelegation
  lastResponse  \* the latest answer of a route or tool that returns agents

(***************************************************************************)
(* Strings                                                                 *)
(***************************************************************************)

\* String.prototype.startsWith
StartsWith(s, p) == Len(p) <= Len(s) /\ SubSeq(s, 1, Len(p)) = p

\* String.prototype.endsWith
EndsWith(s, p) == Len(p) <= Len(s) /\ SubSeq(s, Len(s) - Len(p) + 1, Len(s)) = p

\* s.slice(0, -1)
DropLast(s) == SubSeq(s, 1, Len(s) - 1)

\* s.slice(k) with 0-based k, i.e. the characters after the first k
Drop(s, k) == SubSeq(s, k + 1, Len(s))

\* String.prototype.includes
Includes(s, t) == \E i \in 0..(Len(s) - Len(t)) : SubSeq(s, i + 1, i + Len(t)) = t

\* index (1-based) of the first occurrence of character c in s, 0 if none
IndexOf(s, c) ==
  IF \E i \in 1..Len(s) : s[i] = c
  THEN CHOOSE i \in 1..Len(s) : s[i] = c /\ \A j \in 1..(i - 1) : s[j] # c
  ELSE 0

\* index (1-based) of the last occurrence of character c in s, 0 if none
LastIndexOf(s, c) ==
  IF \E i \in 1..Len(s) : s[i] = c
  THEN CHOOSE i \in 1..Len(s) : s[i] = c /\ \A j \in (i + 1)..Len(s) : s[j] # c
  ELSE 0

UpperChars == {"A", "B", "C", "D", "W"}
LowerLetters ==
  {"a", "b", "c", "d", "e", "f", "g", "h", "i", "j", "k", "l", "m",
   "n", "o", "p", "q", "r", "s", "t", "u", "v", "w", "x", "y", "z"}
Digits == {"0", "1", "2", "3", "4", "5", "6", "7", "8", "9"}

\* toLowerCase of one character
LowerChar(c) ==
  IF c = "A" THEN "a" ELSE IF c = "B" THEN "b" ELSE IF c = "C" THEN "c"
  ELSE IF c = "D" THEN "d" ELSE IF c = "W" THEN "w" ELSE c

\* String.prototype.toLowerCase
ToLowerCase(s) == [i \in 1..Len(s) |-> LowerChar(s[i])]

\* value of a decimal digit
DigitVal(c) ==
  CASE c = "0" -> 0 [] c = "1" -> 1 [] c = "2" -> 2 [] c = "3" -> 3 [] c = "4" -> 4
    [] c = "5" -> 5 [] c = "6" -> 6 [] c = "7" -> 7 [] c = "8" -> 8 [] c = "9" -> 9

RECURSIVE ParseDecimal(_)
\* the number a string of decimal digits denotes (leading zeros allowed)
ParseDecimal(s) ==
  IF s = <<>> THEN 0
  ELSE 10 * ParseDecimal(DropLast(s)) + DigitVal(s[Len(s)])

(***************************************************************************)
(* new URL(s): the WHATWG URL parser without a base URL, for strings over  *)
(* letters, digits and the characters : / * - (no userinfo, query,         *)
(* fragment, dot segment, percent escape, backslash or bracketed host,     *)
(* whose characters the inputs below do not contain).                      *)
(***************************************************************************)

S_file == <<"f", "i", "l", "e">>
S_http == <<"h", "t", "t", "p">>
S_https == <<"h", "t", "t", "p", "s">>
S_ftp == <<"f", "t", "p">>
S_ws == <<"w", "s">>
S_wss == <<"w", "s", "s">>
S_git == <<"g", "i", "t">>
S_localhost == <<"l", "o", "c", "a", "l", "h", "o", "s", "t">>

SpecialSchemes == {S_file, S_http, S_https, S_ftp, S_ws, S_wss}

NoPort == -1

\* the default port of a special scheme; NoPort for file and non-special schemes
DefaultPort(scheme) ==
  CASE scheme = S_http -> 80
    [] scheme = S_ws -> 80
    [] scheme = S_https -> 443
    [] scheme = S_wss -> 443
    [] scheme = S_ftp -> 21
    [] OTHER -> NoPort

SchemeChars == LowerLetters \cup UpperChars \cup Digits \cup {"+", "-", "."}

\* the parse failed: new URL throws TypeError
URLFailure == [ok |-> FALSE]

\* number of leading "/" characters of s
LeadingSlashes(s) ==
  IF \E i \in 1..Len(s) : s[i] # "/"
  THEN (CHOOSE i \in 1..Len(s) : s[i] # "/" /\ \A j \in 1..(i - 1) : s[j] = "/") - 1
  ELSE Len(s)

\* the port of an authority: <<hostname, port>>, <<>> when the port is not a
\* number below 65536 or the host holds a forbidden character (the parser fails)
HostPort(hostname, portStr, scheme) ==
  IF \E i \in 1..Len(portStr) : portStr[i] \notin Digits THEN <<>>
  ELSE IF \E i \in 1..Len(hostname) : hostname[i] \in {":", "/"} THEN <<>>
  ELSE IF portStr = <<>> THEN <<hostname, NoPort>>
  ELSE IF Len(portStr) > 5 \/ ParseDecimal(portStr) > 65535 THEN <<>>
  ELSE IF ParseDecimal(portStr) = DefaultPort(scheme) THEN <<hostname, NoPort>>
  ELSE <<hostname, ParseDecimal(portStr)>>

\* host[:port] split at its last ":" (position k, 0 when there is none); the
\* host of a special scheme is lower-cased
ParseAuthorityAt(auth, scheme, k) ==
  HostPort(IF scheme \in SpecialSchemes
             THEN ToLowerCase(IF k = 0 THEN auth ELSE SubSeq(auth, 1, k - 1))
             ELSE (IF k = 0 THEN auth ELSE SubSeq(auth, 1, k - 1)),
           IF k = 0 THEN <<>> ELSE Drop(auth, k),
           scheme)

ParseAuthority(auth, scheme) == ParseAuthorityAt(auth, scheme, LastIndexOf(auth, ":"))

\* the authority and the path of what follows "//", e being the position of
\* the first "/" (0 when there is none)
AuthorityOf(after, e) == IF e = 0 THEN after ELSE SubSeq(after, 1, e - 1)
PathOf(after, e) == IF e = 0 THEN <<>> ELSE Drop(after, e - 1)

\* file host state: no port; localhost is the empty host; the path is at least "/"
FileURL(scheme, auth, path) ==
  IF \E i \in 1..Len(auth) : auth[i] = ":" THEN URLFailure
  ELSE [ok |-> TRUE, protocol |-> scheme \o <<":">>,
        host |-> <<IF ToLowerCase(auth) = S_localhost THEN <<>> ELSE ToLowerCase(auth),
                   NoPort>>,
        pathname |-> IF path = <<>> THEN <<"/">> ELSE path]

\* a URL with an authority: a special scheme needs a host and has a path of
\* at least "/", another scheme may have an empty host and an empty path
AuthorityURL(scheme, h, path) ==
  IF h = <<>> THEN URLFailure
  ELSE IF scheme \in SpecialSchemes /\ h[1] = <<>> THEN URLFailure
  ELSE [ok |-> TRUE, protocol |-> scheme \o <<":">>, host |-> h,
        pathname |-> IF scheme \in SpecialSchemes /\ path = <<>> THEN <<"/">> ELSE path]

\* what follows "//" (after any number of slashes, for a special scheme)
AfterSlashes(scheme, after, e) ==
  IF scheme = S_file THEN FileURL(scheme, AuthorityOf(after, e), PathOf(after, e))
  ELSE AuthorityURL(scheme, ParseAuthority(AuthorityOf(after, e), scheme), PathOf(after, e))

\* a URL without an authority: path-absolute or opaque path, no host
NoAuthorityURL(scheme, path) ==
  [ok |-> TRUE, protocol |-> scheme \o <<":">>, host |-> <<<<>>, NoPort>>,
   pathname |-> path]

\* the states after the scheme, n being the number of slashes that follow it
AfterScheme(scheme, rest, n) ==
  IF scheme = S_file THEN
    IF n >= 2 THEN AfterSlashes(scheme, Drop(rest, 2), IndexOf(Drop(rest, 2), "/"))
    ELSE NoAuthorityURL(scheme, IF n = 1 THEN rest ELSE <<"/">> \o rest)
  ELSE IF scheme \in SpecialSchemes THEN
    AfterSlashes(scheme, Drop(rest, n), IndexOf(Drop(rest, n), "/"))
  ELSE IF n >= 2 THEN
    AfterSlashes(scheme, Drop(rest, 2), IndexOf(Drop(rest, 2), "/"))
  ELSE NoAuthorityURL(scheme, rest)

\* scheme start state and scheme state, c being the position of the first ":"
NewURLAt(s, c) ==
  IF c <= 1 THEN URLFailure
  ELSE IF s[1] \notin (LowerLetters \cup UpperChars) THEN URLFailure
  ELSE IF \E i \in 1..(c - 1) : s[i] \notin SchemeChars THEN URLFailure
  ELSE AfterScheme(ToLowerCase(SubSeq(s, 1, c - 1)), Drop(s, c), LeadingSlashes(Drop(s, c)))

\* new URL(s): [ok, protocol, host, pathname].  protocol is the lower-cased
\* scheme followed by ":", host is <<hostname, port>> (the string host:port
\* of the source, the default port of the scheme dropped).
NewURL(s) == NewURLAt(s, IndexOf(s, ":"))

(***************************************************************************)
(* Resource/URI matcher (DiscoveryEngine.uriMatches and helpers)           *)
(***************************************************************************)

\* pathMatches with a glob that covers direct children only
pathMatches_GlobOneLevel(agentPath, requiredPath) ==
  IF agentPath = requiredPath THEN TRUE
  ELSE IF EndsWith(agentPath, <<"/", "*">>)
          /\ StartsWith(requiredPath, DropLast(agentPath))
          /\ IndexOf(Drop(requiredPath, Len(agentPath) - 1), "/") = 0 THEN TRUE
  ELSE IF agentPath = <<"/">> /\ StartsWith(requiredPath, <<"/">>) THEN TRUE
  ELSE IF StartsWith(requiredPath, agentPath \o <<"/">>) THEN TRUE
  ELSE FALSE

\* pathMatches that also lets a path cover the paths above it
pathMatches_EitherWay(agentPath, requiredPath) ==
  IF agentPath = requiredPath THEN TRUE
  ELSE IF EndsWith(agentPath, <<"/", "*">>)
          /\ StartsWith(requiredPath, DropLast(agentPath)) THEN TRUE
  ELSE IF agentPath = <<"/">> /\ StartsWith(requiredPath, <<"/">>) THEN TRUE
  ELSE IF StartsWith(requiredPath, agentPath \o <<"/">>) THEN TRUE
  ELSE IF StartsWith(agentPath, requiredPath \o <<"/">>) THEN TRUE
  ELSE FALSE

pathMatches(agentPath, requiredPath) ==
  IF agentPath = requiredPath THEN TRUE
  ELSE IF EndsWith(agentPath, <<"/", "*">>)
          /\ StartsWith(requiredPath, DropLast(agentPath)) THEN TRUE
  ELSE IF agentPath = <<"/">> /\ StartsWith(requiredPath, <<"/">>) THEN TRUE
  ELSE IF StartsWith(requiredPath, agentPath \o <<"/">>) THEN TRUE
  ELSE FALSE

stringPrefixMatch(agentUri, requiredUri) ==
  IF EndsWith(agentUri, <<"/", "*">>)
  THEN StartsWith(requiredUri, DropLast(agentUri))
  ELSE StartsWith(requiredUri, agentUri \o <<"/">>) \/ StartsWith(requiredUri, agentUri)

\* the comparison of the parsed URLs, without the comparison of the hosts
MatchParsed_NoHostCheck(agentUri, requiredUri, agentParsed, requiredParsed) ==
  IF ~agentParsed.ok \/ ~requiredParsed.ok
  THEN stringPrefixMatch(agentUri, requiredUri)
  ELSE IF agentParsed.protocol # requiredParsed.protocol THEN FALSE
  ELSE pathMatches(agentParsed.pathname, requiredParsed.pathname)

\* uriMatches after both new URL(...): the catch branch when either threw,
\* the scheme, host and path comparisons otherwise
MatchParsed(agentUri, requiredUri, agentParsed, requiredParsed) ==
  IF ~agentParsed.ok \/ ~requiredParsed.ok
  THEN stringPrefixMatch(agentUri, requiredUri)
  ELSE IF agentParsed.protocol # requiredParsed.protocol THEN FALSE
  ELSE IF agentParsed.host # requiredParsed.host THEN FALSE
  ELSE pathMatches(agentParsed.pathname, requiredParsed.pathname)

uriMatches(agentUri, requiredUri) ==
  IF agentUri = requiredUri THEN TRUE
  ELSE MatchParsed(agentUri, requiredUri, NewURL(agentUri), NewURL(requiredUri))

(***************************************************************************)
(* Discovery engine (DiscoveryEngine.discover)                             *)
(***************************************************************************)

\* an optional argument or field: Undefined when omitted, Some(v) when given
Undefined == <<>>
Some(v) == <<v>>
IsSome(o) == o # <<>>
Val(o) == o[1]

\* a value is truthy: neither undefined nor the empty string
Truthy(o) == IsSome(o) /\ Val(o) # <<>>

\* \w of a JavaScript regular expression: [A-Za-z0-9_]
WordChars == LowerLetters \cup UpperChars \cup Digits \cup {"_"}

RECURSIVE SplitWords(_, _, _)
\* s.split(/[\s\W]+/).filter(t => t.length > 0) from position i on, cur being
\* the run of word characters read so far: the maximal runs of word characters
SplitWords(s, i, cur) ==
  IF i > Len(s) THEN (IF cur = <<>> THEN <<>> ELSE <<cur>>)
  ELSE IF s[i] \in WordChars THEN SplitWords(s, i + 1, Append(cur, s[i]))
  ELSE (IF cur = <<>> THEN <<>> ELSE <<cur>>) \o SplitWords(s, i + 1, <<>>)

\* split without the filter: the empty strings before a leading separator and
\* after a trailing one are kept
tokenize_KeepEmpties(query) ==
  (IF query = <<>> \/ query[1] \notin WordChars THEN <<<<>>>> ELSE <<>>)
    \o SplitWords(ToLowerCase(query), 1, <<>>)
    \o (IF query # <<>> /\ query[Len(query)] \notin WordChars THEN <<<<>>>> ELSE <<>>)

tokenize(query) == SplitWords(ToLowerCase(query), 1, <<>>)

RECURSIVE Join(_, _)
\* Array.prototype.join
Join(strs, sep) ==
  IF strs = <<>> THEN <<>>
  ELSE IF Len(strs) = 1 THEN strs[1]
  ELSE strs[1] \o sep \o Join(Tail(strs), sep)

\* [description.toLowerCase(), ...capabilities.map(c => c.toLowerCase())].join(' ')
SearchText(agent) ==
  Join(<<ToLowerCase(agent.description)>>
         \o [i \in 1..Len(agent.capabilities) |-> ToLowerCase(agent.capabilities[i])],
       <<" ">>)

\* the tokens found in the search text, in query order
TokensIn(text, tokens) ==
  LET Found(t) == Includes(text, t)
  IN  SelectSeq(tokens, Found)

\* every token pushed, whether the search text includes it or not
MatchedCapabilities_All(agent, tokens) == tokens

MatchedCapabilities(agent, tokens) == TokensIn(SearchText(agent), tokens)

\* agent.resources.find(r => uriMatches(r.uri, req.uri)): the index of the
\* first covering grant, 0 when there is none
FirstOf(hits) == IF hits = {} THEN 0 ELSE CHOOSE i \in hits : \A j \in hits : i <= j

\* the index of the last covering grant, 0 when there is none
LastOf(hits) == IF hits = {} THEN 0 ELSE CHOOSE i \in hits : \A j \in hits : i >= j

\* findLast(...) in place of find(...): the last covering grant
FindResource_Last(agent, req) ==
  LastOf({i \in 1..Len(agent.resources) : uriMatches(agent.resources[i].uri, req.uri)})

FindResource(agent, req) ==
  FirstOf({i \in 1..Len(agent.resources) : uriMatches(agent.resources[i].uri, req.uri)})

\* some(...) in place of every(...): one covered requirement is enough
AllResourcesMatched_Some(agent, requiredResources) ==
  \E k \in 1..Len(requiredResources) : FindResource(agent, requiredResources[k]) # 0

\* requiredResources.every(...): every requirement has a covering grant
AllResourcesMatched(agent, requiredResources) ==
  \A k \in 1..Len(requiredResources) : FindResource(agent, requiredResources[k]) # 0

\* the first covering grant of each requirement (0 when there is none)
FoundResources(agent, requiredResources) ==
  [k \in 1..Len(requiredResources) |-> FindResource(agent, requiredResources[k])]

\* the grants pushed by the callback of every(...), which stops at the first
\* requirement without a covering grant: the first covering grant of each
\* requirement before that one, in requirement order
PushedResources(agent, found) ==
  [k \in 1..(IF \E j \in 1..Len(found) : found[j] = 0
             THEN (CHOOSE j \in 1..Len(found) :
                     found[j] = 0 /\ \A i \in 1..(j - 1) : found[i] # 0) - 1
             ELSE Len(found)) |-> agent.resources[found[k]]]

MatchedResources(agent, requiredResources) ==
  PushedResources(agent, FoundResources(agent, requiredResources))

\* requiredResources && requiredResources.length > 0
HasRequirements(requiredResources) ==
  IsSome(requiredResources) /\ Len(Val(requiredResources)) > 0

\* capabilityScore + resourceBoost without Math.min
Score_Unclamped(nMatched, nTokens, nMatchedRes, nRequired) ==
  [num |-> IF nRequired = 0 THEN nMatched
           ELSE 5 * nRequired * nMatched + nTokens * nMatchedRes,
   den |-> IF nRequired = 0 THEN nTokens ELSE 5 * nTokens * nRequired]

\* Math.min(capabilityScore + resourceBoost, 1) as the fraction num/den:
\* capabilityScore = matched/tokens, resourceBoost = (matchedRes/required) * 0.2
Score(nMatched, nTokens, nMatchedRes, nRequired) ==
  LET den == IF nRequired = 0 THEN nTokens ELSE 5 * nTokens * nRequired
      raw == IF nRequired = 0 THEN nMatched
             ELSE 5 * nRequired * nMatched + nTokens * nMatchedRes
  IN  [num |-> IF raw > den THEN den ELSE raw, den |-> den]

\* a.score < b.score
ScoreLess(a, b) == a.num * b.den < b.num * a.den

\* the entry pushed for an agent that passed both filters
ResultEntry(agent, matched, nTokens, matchedResources, nRequired) ==
  [agent |-> agent,
   score |-> Score(Len(matched), nTokens, Len(matchedResources), nRequired),
   matchedCapabilities |-> matched,
   matchedResources |-> matchedResources]

\* the loop body after the capability match: <<>> when the agent is skipped
\* (continue), its entry otherwise
FilterAgent(agent, matched, nTokens, requiredResources) ==
  IF Len(matched) = 0 THEN <<>>
  ELSE IF ~HasRequirements(requiredResources)
       THEN <<ResultEntry(agent, matched, nTokens, <<>>, 0)>>
  ELSE IF ~AllResourcesMatched(agent, Val(requiredResources)) THEN <<>>
  ELSE <<ResultEntry(agent, matched, nTokens,
                     MatchedResources(agent, Val(requiredResources)),
                     Len(Val(requiredResources)))>>

\* the result entry of one agent, <<>> when the agent is skipped
AgentResult(agent, tokens, requiredResources) ==
  FilterAgent(agent, MatchedCapabilities(agent, tokens), Len(tokens), requiredResources)

RECURSIVE CollectResults(_, _, _)
\* the loop over registry.list(): the entries pushed, in list order
CollectResults(agentList, tokens, requiredResources) ==
  IF agentList = <<>> THEN <<>>
  ELSE AgentResult(Head(agentList), tokens, requiredResources)
         \o CollectResults(Tail(agentList), tokens, requiredResources)

RECURSIVE InsertByScore_BeforeTies(_, _)
\* insert x before the entries of equal score (descending, ties reversed)
InsertByScore_BeforeTies(sorted, x) ==
  IF sorted = <<>> THEN <<x>>
  ELSE IF ~ScoreLess(x.score, Head(sorted).score) THEN <<x>> \o sorted
  ELSE <<Head(sorted)>> \o InsertByScore_BeforeTies(Tail(sorted), x)

\* insert x after every entry whose score is not smaller (stable, descending)
RECURSIVE InsertByScore(_, _)
InsertByScore(sorted, x) ==
  IF sorted = <<>> THEN <<x>>
  ELSE IF ScoreLess(Head(sorted).score, x.score) THEN <<x>> \o sorted
  ELSE <<Head(sorted)>> \o InsertByScore(Tail(sorted), x)

\* no sort at all: the entries stay in the order of the candidate list
SortByScore_Unsorted(results) == results

RECURSIVE SortByScore(_)
\* results.sort((a, b) => b.score - a.score): a stable sort, descending score
SortByScore(results) ==
  IF results = <<>> THEN <<>>
  ELSE InsertByScore(SortByScore(DropLast(results)), results[Len(results)])

\* a limit that keeps the end of the list: results.slice(-limit)
ApplyLimit_FromEnd(results, limit) ==
  IF ~IsSome(limit) \/ Val(limit) = 0 THEN results
  ELSE IF Val(limit) > 0
       THEN SubSeq(results,
                   IF Val(limit) < Len(results) THEN Len(results) - Val(limit) + 1 ELSE 1,
                   Len(results))
  ELSE SubSeq(results, 1, Len(results) + Val(limit))

\* limit ? results.slice(0, limit) : results
ApplyLimit(results, limit) ==
  IF ~IsSome(limit) \/ Val(limit) = 0 THEN results
  ELSE IF Val(limit) > 0
       THEN SubSeq(results, 1, IF Val(limit) < Len(results) THEN Val(limit) ELSE Len(results))
  ELSE SubSeq(results, 1, Len(results) + Val(limit))

\* DiscoveryEngine.discover(query, registry, limit, requiredResources), agentList
\* being registry.list()
discoverTokens(tokens, agentList, limit, requiredResources) ==
  IF Len(tokens) = 0 THEN <<>>
  ELSE ApplyLimit(SortByScore(CollectResults(agentList, tokens, requiredResources)), limit)

discover(query, agentList, limit, requiredResources) ==
  discoverTokens(tokenize(query), agentList, limit, requiredResources)


(***************************************************************************)
(* Agent registry (AgentRegistry: the agents table)                        *)
(***************************************************************************)

\* the characters of the model in ASCII order
CharOrder ==
  <<" ", "*", "+", "-", ".", "/", "0", "1", "2", "3", "4", "5", "6", "7", "8", "9",
    ":", "A", "B", "C", "D", "W", "_",
    "a", "b", "c", "d", "e", "f", "g", "h", "i", "j", "k", "l", "m",
    "n", "o", "p", "q", "r", "s", "t", "u", "v", "w", "x", "y", "z">>

CharCode(c) == CHOOSE i \in 1..Len(CharOrder) : CharOrder[i] = c

RECURSIVE StrLess(_, _)
\* a < b in SQLite's BINARY collation (byte order)
StrLess(a, b) ==
  IF b = <<>> THEN FALSE
  ELSE IF a = <<>> THEN TRUE
  ELSE IF a[1] # b[1] THEN CharCode(a[1]) < CharCode(b[1])
  ELSE StrLess(Tail(a), Tail(b))

\* s.trim().length === 0
IsBlank(s) == \A i \in 1..Len(s) : s[i] = " "

RECURSIVE SortedNames(_)
\* the names of a set in ascending order (ORDER BY name)
SortedNames(names) ==
  IF names = {} THEN <<>>
  ELSE LET least == CHOOSE n \in names : \A m \in names \ {n} : StrLess(n, m)
       IN  <<least>> \o SortedNames(names \ {least})

\* AgentRegistry.list(): SELECT * FROM agents ORDER BY name
list(table) ==
  LET names == SortedNames(DOMAIN table)
  IN  [i \in 1..Len(names) |-> table[names[i]]]

\* AgentRegistry.get(name): Undefined (null) when there is no such row
get(table, name) == IF name \in DOMAIN table THEN Some(table[name]) ELSE Undefined

\* register rejects an input without a name or an endpoint (it throws)
RegisterAccepts(input) == ~IsBlank(input.name) /\ ~IsBlank(input.endpoint)

\* a register that leaves the record of a name that is already there
register_KeepsExisting(table, input) ==
  [n \in DOMAIN table \cup {input.name} |->
     IF n \in DOMAIN table THEN table[n]
     ELSE [name |-> input.name, description |-> input.description,
           capabilities |-> input.capabilities, resources |-> input.resources,
           endpoint |-> input.endpoint, protocol |-> input.protocol,
           auth |-> input.auth]]

\* AgentRegistry.register(agent): INSERT ... ON CONFLICT(name) DO UPDATE
register(table, input) ==
  [n \in DOMAIN table \cup {input.name} |->
     IF n = input.name
     THEN [name |-> input.name, description |-> input.description,
           capabilities |-> input.capabilities, resources |-> input.resources,
           endpoint |-> input.endpoint, protocol |-> input.protocol,
           auth |-> input.auth]
     ELSE table[n]]

\* AgentRegistry.unregister(name): DELETE FROM agents WHERE name = ?
unregister(table, name) == [n \in DOMAIN table \ {name} |-> table[n]]

(***************************************************************************)
(* Delegation client (DelegationClient, second version of delegation.ts)   *)
(*                                                                         *)
(* A DelegationResult is [success, status, result, error, latencyMs] with  *)
(* result and error optional.  opts is optional, and so are its fields     *)
(* context, auth, timeout and async; auth is [type, token, headerName],    *)
(* token and headerName optional; a context is [depth, extra, circular],   *)
(* depth optional, extra the optional value of another key of the caller,  *)
(* circular telling that a caller field cannot be serialised.              *)
(***************************************************************************)

MAX_DEPTH == 5
DEFAULT_TIMEOUT == 120000

DigitChars == <<"0", "1", "2", "3", "4", "5", "6", "7", "8", "9">>

RECURSIVE ToDecimal(_)
\* `${n}` for a non-negative integer n
ToDecimal(n) ==
  IF n < 10 THEN <<DigitChars[n + 1]>>
  ELSE ToDecimal(n \div 10) \o <<DigitChars[(n % 10) + 1]>>

RECURSIVE StripTrailingSlashes(_)
\* s.replace(/\/+$/, '')
StripTrailingSlashes(s) ==
  IF s # <<>> /\ s[Len(s)] = "/" THEN StripTrailingSlashes(DropLast(s)) ELSE s

DefaultMeshBaseUrl == <<"h", "t", "t", "p", ":", "/", "/", "l", "o", "c", "a", "l", "h", "o",
    "s", "t", ":", "8", "7", "6", "6">>

\* new DelegationClient(opts), env being process.env['MESH_BASE_URL']
NewDelegationClient(optMeshBaseUrl, env, optTimeout) ==
  [meshBaseUrl |-> StripTrailingSlashes(IF IsSome(optMeshBaseUrl) THEN Val(optMeshBaseUrl)
                                        ELSE IF IsSome(env) THEN Val(env)
                                        ELSE DefaultMeshBaseUrl),
   timeout |-> IF IsSome(optTimeout) THEN Val(optTimeout) ELSE DEFAULT_TIMEOUT]

\* opts?.context, opts?.context?.depth, opts?.timeout, opts?.async
OptContext(opts) == IF IsSome(opts) THEN Val(opts).context ELSE Undefined
OptDepth(opts) == IF IsSome(OptContext(opts)) THEN Val(OptContext(opts)).depth ELSE Undefined
OptTimeout(opts) == IF IsSome(opts) THEN Val(opts).timeout ELSE Undefined
OptAsync(opts) == IsSome(opts) /\ IsSome(Val(opts).async) /\ Val(Val(opts).async)

OptAuth(opts) == IF IsSome(opts) THEN Val(opts).auth ELSE Undefined

\* a depth read that ignores the context the caller passed
DepthOf_Ignored(opts) == 0

\* (opts?.context?.depth as number) ?? 0
DepthOf(opts) == IF IsSome(OptDepth(opts)) THEN Val(OptDepth(opts)) ELSE 0

\* opts?.timeout ?? this.timeout
TimeoutOf(client, opts) ==
  IF IsSome(OptTimeout(opts)) THEN Val(OptTimeout(opts)) ELSE client.timeout

\* a depth guard that lets the first depth above the ceiling through
DepthExceeded_AboveNext(depth) == depth > MAX_DEPTH + 1

\* depth > MAX_DEPTH
DepthExceeded(depth) == depth > MAX_DEPTH

\* the outcome of the depth guard
DepthGuardOutcome(depth) ==
  [success |-> FALSE, status |-> "failed", result |-> Undefined,
   error |-> Some(<<"D", "e", "l", "e", "g", "a", "t", "i", "o", "n", " ", "d", "e", "p", "t",
       "h", " ">> \o ToDecimal(depth)
                  \o <<" ", "e", "x", "c", "e", "e", "d", "s", " ", "m", "a", "x",
                      " ">> \o ToDecimal(MAX_DEPTH)),
   latencyMs |-> 0]

\* opts?.context?.extra, the caller's other key
OptExtra(opts) == IF IsSome(OptContext(opts)) THEN Val(OptContext(opts)).extra ELSE Undefined

\* { ...opts?.context } without depth: depth + 1
SentContext_NoIncrement(opts) ==
  [depth |-> OptDepth(opts), extra |-> OptExtra(opts),
   circular |-> IsSome(OptContext(opts)) /\ Val(OptContext(opts)).circular]

\* { ...opts?.context, depth: depth + 1 }
SentContext(opts) ==
  [depth |-> Some(DepthOf(opts) + 1), extra |-> OptExtra(opts),
   circular |-> IsSome(OptContext(opts)) /\ Val(OptContext(opts)).circular]

\* `${this.meshBaseUrl}/v1/delegations/${delegationId}/result`
CallbackUrl(client, delegationId) ==
  client.meshBaseUrl \o <<"/", "v", "1", "/", "d", "e", "l", "e", "g", "a", "t", "i", "o", "n",
      "s", "/">> \o delegationId \o <<"/", "r", "e", "s", "u", "l", "t">>

\* a DelegationRequest with a callback address whatever opts.async is
RequestBody_AlwaysCallback(client, delegationId, task, opts) ==
  [delegationId |-> delegationId, task |-> task, context |-> SentContext(opts),
   callbackUrl |-> Some(CallbackUrl(client, delegationId))]

\* the DelegationRequest built before the call
RequestBody(client, delegationId, task, opts) ==
  [delegationId |-> delegationId, task |-> task, context |-> SentContext(opts),
   callbackUrl |-> IF OptAsync(opts) THEN Some(CallbackUrl(client, delegationId))
                   ELSE Undefined]

H_ContentType == <<"C", "o", "n", "t", "e", "n", "t", "-", "T", "y", "p", "e">>
H_Authorization == <<"A", "u", "t", "h", "o", "r", "i", "z", "a", "t", "i", "o", "n">>

\* { 'Content-Type': 'application/json' }
BaseHeaders == [n \in {H_ContentType} |-> <<"a", "p", "p", "l", "i", "c", "a", "t", "i", "o", "n", "/", "j", "s", "o", "n">>]

\* headers[name] = value
SetHeader(headers, name, value) ==
  [n \in DOMAIN headers \cup {name} |-> IF n = name THEN value ELSE headers[n]]

\* the headers of a request that never carries a credential
RequestHeaders_NoCredential(auth) == BaseHeaders

\* the headers of the request, auth being opts?.auth
RequestHeaders(auth) ==
  IF IsSome(auth) /\ Val(auth).type = "bearer" /\ Truthy(Val(auth).token)
  THEN SetHeader(BaseHeaders, H_Authorization, <<"B", "e", "a", "r", "e", "r", " ">> \o Val(Val(auth).token))
  ELSE IF /\ IsSome(auth)
          /\ Val(auth).type = "header"
          /\ Truthy(Val(auth).headerName)
          /\ Truthy(Val(auth).token)
  THEN SetHeader(BaseHeaders, Val(Val(auth).headerName), Val(Val(auth).token))
  ELSE BaseHeaders

\* JSON.stringify(body) throws on a value that cannot be serialised
Serialisable(body) == ~body.context.circular

\* fetch accepts an absolute http(s) URL and rejects anything else before
\* any network activity
ParsedForFetch(parsed) == parsed.ok /\ parsed.protocol \in {S_http \o <<":">>, S_https \o <<":">>}
FetchAccepts(endpoint) == ParsedForFetch(NewURL(endpoint))

\* what fetch(...) rejects with
ErrFetchFailed == [name |-> "TypeError", message |-> <<"f", "e", "t", "c", "h", " ", "f", "a",
    "i", "l", "e", "d">>]
ErrInvalidURL == [name |-> "TypeError", message |-> <<"F", "a", "i", "l", "e", "d", " ", "t",
    "o", " ", "p", "a", "r", "s", "e", " ", "U", "R", "L">>]
ErrNotSerialisable ==
  [name |-> "TypeError", message |-> <<"C", "o", "n", "v", "e", "r", "t", "i", "n", "g", " ",
      "c", "i", "r", "c", "u", "l", "a", "r", " ", "s", "t", "r", "u", "c", "t", "u", "r", "e",
      " ", "t", "o", " ", "J", "S", "O", "N">>]
ErrTimeout ==
  [name |-> "TimeoutError", message |-> <<"T", "h", "e", " ", "o", "p", "e", "r", "a", "t",
      "i", "o", "n", " ", "w", "a", "s", " ", "a", "b", "o", "r", "t", "e", "d", " ", "d", "u",
      "e", " ", "t", "o", " ", "t", "i", "m", "e", "o", "u", "t">>]

\* response.ok
ResponseOk(status) == status >= 200 /\ status <= 299

(***************************************************************************)
(* JSON texts of response bodies: null, and objects whose members are      *)
(* strings without escapes or the literal true.  A parsed value is         *)
(* [null, members], members a sequence of <<key, value>>, a value being a  *)
(* string or JTrue.                                                        *)
(***************************************************************************)
\* the boolean true: a one-element sequence that is no string, the elements
\* of a string being single characters
JTrue == <<"true">>

JNull == [null |-> TRUE, members |-> <<>>]
JObject(members) == [null |-> FALSE, members |-> members]
NoParse == [ok |-> FALSE, value |-> JNull]

\* the string literal that opens at s[1], q being the offset of its closing
\* quote: <<found, characters, rest>>
ReadStringAt(s, q) ==
  IF q = 0 THEN <<FALSE, <<>>, <<>>>> ELSE <<TRUE, SubSeq(s, 2, q), Drop(s, q + 1)>>

ReadString(s) ==
  IF Len(s) < 2 \/ s[1] # "\"" THEN <<FALSE, <<>>, <<>>>>
  ELSE ReadStringAt(s, IndexOf(Drop(s, 1), "\""))

\* the value that opens at s[1]: <<found, value, rest>>
ReadValue(s) ==
  IF Len(s) >= 4 /\ SubSeq(s, 1, 4) = <<"t", "r", "u", "e">> THEN <<TRUE, JTrue, Drop(s, 4)>>
  ELSE ReadString(s)

RECURSIVE ParseMembers(_)

\* the members after  "key":value  has been read
MembersAfterValue(key, v) ==
  IF ~v[1] THEN NoParse
  ELSE IF v[3] = <<"}">> THEN [ok |-> TRUE, value |-> JObject(<<<<key, v[2]>>>>)]
  ELSE IF v[3] # <<>> /\ v[3][1] = ","
       THEN [ok |-> ParseMembers(Drop(v[3], 1)).ok,
             value |-> JObject(<<<<key, v[2]>>>> \o ParseMembers(Drop(v[3], 1)).value.members)]
  ELSE NoParse

MembersAfterKey(k) ==
  IF ~k[1] \/ k[3] = <<>> THEN NoParse
  ELSE IF k[3][1] # ":" THEN NoParse
  ELSE MembersAfterValue(k[2], ReadValue(Drop(k[3], 1)))

\* the members of an object, s beginning after its "{" or after a ","
ParseMembers(s) == MembersAfterKey(ReadString(s))

\* JSON.parse(s)
JSONParse(s) ==
  IF s = <<"n", "u", "l", "l">> THEN [ok |-> TRUE, value |-> JNull]
  ELSE IF s = <<"{", "}">> THEN [ok |-> TRUE, value |-> JObject(<<>>)]
  ELSE IF s # <<>> /\ s[1] = "{" THEN ParseMembers(Drop(s, 1))
  ELSE NoParse

\* JSON.stringify of a member value
StringifyValue(v) ==
  IF v = JTrue THEN <<"t", "r", "u", "e">> ELSE <<"\"">> \o v \o <<"\"">>

RECURSIVE StringifyMembers(_)
StringifyMembers(members) ==
  IF members = <<>> THEN <<>>
  ELSE <<"\"">> \o members[1][1] \o <<"\"", ":">> \o StringifyValue(members[1][2])
       \o (IF Len(members) = 1 THEN <<>> ELSE <<",">> \o StringifyMembers(Tail(members)))

\* JSON.stringify(value)
JSONStringify(value) ==
  IF value.null THEN <<"n", "u", "l",
      "l">> ELSE <<"{">> \o StringifyMembers(value.members) \o <<"}">>

\* value?.[key]: the first member named key (undefined for null)
Member(value, key) ==
  IF \E i \in 1..Len(value.members) : value.members[i][1] = key
  THEN Some(value.members[CHOOSE i \in 1..Len(value.members) : value.members[i][1] = key][2])
  ELSE Undefined

\* await response.json().catch(() => null), read being the body that was
\* read, undefined when the read was aborted
JsonOrNull(read) ==
  IF IsSome(read) /\ JSONParse(Val(read)).ok
  THEN JSONParse(Val(read)).value ELSE JNull

\* await response.text().catch(() => '')
TextOrEmpty(read) == IF IsSome(read) THEN Val(read) ELSE <<>>

\* the 202 branch
AcceptedOutcome(latencyMs) ==
  [success |-> TRUE, status |-> "accepted",
   result |-> Some(<<"T", "a", "s", "k", " ", "a", "c", "c", "e", "p", "t", "e", "d", ",", " ",
       "a", "w", "a", "i", "t", "i", "n", "g", " ", "a", "s", "y", "n", "c", " ", "r", "e",
       "s", "u", "l", "t">>),
   error |-> Undefined, latencyMs |-> latencyMs]

\* a !response.ok branch that returns the text as the result, without error
RejectedOutcome_AsResult(status, text, latencyMs) ==
  [success |-> FALSE, status |-> "failed", result |-> Some(text), error |-> Undefined,
   latencyMs |-> latencyMs]

\* the !response.ok branch
RejectedOutcome(status, text, latencyMs) ==
  [success |-> FALSE, status |-> "failed", result |-> Undefined,
   error |-> Some(<<"A", "g", "e", "n", "t", " ", "r", "e", "t", "u", "r", "n", "e", "d",
       " ">> \o ToDecimal(status) \o <<":", " ">> \o text),
   latencyMs |-> latencyMs]

\* the last return of the try block: data?.result ?? JSON.stringify(data)
CompletedOutcome(data, latencyMs) ==
  [success |-> TRUE, status |-> "completed",
   result |-> Some(IF IsSome(Member(data, <<"r", "e", "s", "u", "l", "t">>))
                   THEN Val(Member(data, <<"r", "e", "s", "u", "l",
                       "t">>)) ELSE JSONStringify(data)),
   error |-> Undefined, latencyMs |-> latencyMs]

\* what delegate returns once the body of a response other than 202 was read
BodyOutcome(status, read, latencyMs) ==
  IF ~ResponseOk(status) THEN RejectedOutcome(status, TextOrEmpty(read), latencyMs)
  ELSE CompletedOutcome(JsonOrNull(read), latencyMs)

\* a catch block that reports every error as failed
CatchOutcome_AlwaysFailed(err, timeout, latencyMs) ==
  [success |-> FALSE, status |-> "failed", result |-> Undefined,
   error |-> Some(err.message), latencyMs |-> latencyMs]

\* the catch block
CatchOutcome(err, timeout, latencyMs) ==
  IF err.name = "TimeoutError" \/ Includes(err.message, <<"t", "i", "m", "e", "d", " ", "o",
      "u", "t">>)
  THEN [success |-> FALSE, status |-> "timeout", result |-> Undefined,
        error |-> Some(<<"T", "i", "m", "e", "d", " ", "o", "u", "t", " ", "a", "f", "t", "e",
            "r", " ">> \o ToDecimal(timeout) \o <<"m", "s">>),
        latencyMs |-> latencyMs]
  ELSE [success |-> FALSE, status |-> "failed", result |-> Undefined,
        error |-> Some(err.message), latencyMs |-> latencyMs]

\* fetch(endpoint, {...}): the request goes out
SendRequest_Twice(sent, request) == Append(Append(sent, request), request)

SendRequest(sent, request) == Append(sent, request)

\* a call of delegate that is suspended in await fetch(...)
FetchingCall(endpoint, delegationId, opts, timeout) ==
  [pc |-> "fetching", endpoint |-> endpoint, delegationId |-> delegationId,
   opts |-> opts, timeout |-> timeout, latencyMs |-> 0,
   response |-> Undefined, error |-> Undefined, readFailed |-> FALSE,
   timerFired |-> FALSE, outcome |-> Undefined]

\* delegate(endpoint, delegationId, task, opts) up to its first suspension:
\* the depth guard returns at once, and so does the catch block when
\* JSON.stringify throws or fetch refuses the endpoint, elapsed being
\* Date.now() - start when the catch block runs
delegateEntry(client, endpoint, delegationId, task, opts, elapsed) ==
  IF DepthExceeded(DepthOf(opts))
  THEN [FetchingCall(endpoint, delegationId, opts, TimeoutOf(client, opts))
          EXCEPT !.pc = "returned",
                 !.outcome = Some(DepthGuardOutcome(DepthOf(opts)))]
  ELSE IF ~Serialisable(RequestBody(client, delegationId, task, opts))
  THEN [FetchingCall(endpoint, delegationId, opts, TimeoutOf(client, opts))
          EXCEPT !.pc = "returned", !.error = Some(ErrNotSerialisable),
                 !.outcome = Some(CatchOutcome(ErrNotSerialisable,
                                               TimeoutOf(client, opts), elapsed))]
  ELSE IF ~FetchAccepts(endpoint)
  THEN [FetchingCall(endpoint, delegationId, opts, TimeoutOf(client, opts))
          EXCEPT !.pc = "returned", !.error = Some(ErrInvalidURL),
                 !.outcome = Some(CatchOutcome(ErrInvalidURL,
                                               TimeoutOf(client, opts), elapsed))]
  ELSE FetchingCall(endpoint, delegationId, opts, TimeoutOf(client, opts))

\* await fetch(...) rejects with err, elapsed being Date.now() - start
delegateCaught(call, err, elapsed) ==
  [call EXCEPT !.pc = "returned", !.error = Some(err),
               !.outcome = Some(CatchOutcome(err, call.timeout, elapsed))]

\* await fetch(...) resolves with a response, elapsed being Date.now() -
\* start: 202 returns at once, any other status goes on to read the body
delegateResponded(call, status, body, elapsed) ==
  IF status = 202
  THEN [call EXCEPT !.pc = "returned", !.latencyMs = elapsed,
                    !.response = Some([status |-> status, body |-> body]),
                    !.outcome = Some(AcceptedOutcome(elapsed))]
  ELSE [call EXCEPT !.pc = "reading", !.latencyMs = elapsed,
                    !.response = Some([status |-> status, body |-> body])]

\* response.text() / response.json() settles: read is the body, undefined
\* when the read was aborted
delegateRead(call, read) ==
  [call EXCEPT !.pc = "returned", !.readFailed = ~IsSome(read),
               !.outcome = Some(BodyOutcome(Val(call.response).status, read,
                                            call.latencyMs))]

(***************************************************************************)
(* Bounded inputs of the delegation client                                 *)
(***************************************************************************)
MaxCalls == 1
MaxElapsed == 1
MaxDepthAbove == 1

CallIds == 1..MaxCalls

\* the values of Date.now() - start: no time at all, or MaxElapsed ms
Elapsed == {0, MaxElapsed}
DelegationIdOf(c) == <<"d">> \o ToDecimal(c)
TheTask == <<"t">>

E_agent == <<"h", "t", "t", "p", ":", "/", "/", "h", "1", "/", "t">>
E_invalid == <<"h", "1">>
Endpoints == {E_agent, E_invalid}

\* new DelegationClient({ meshBaseUrl: 'http://m/' })
TheClient == NewDelegationClient(Some(<<"h", "t", "t", "p", ":", "/", "/", "m", "/">>),
    Undefined, Undefined)

\* the value of the caller's other context key
ExtraValue == <<"v">>

\* the credentials of the agents called
TheToken == <<"s">>
AuthBearer == [type |-> "bearer", token |-> Some(TheToken), headerName |-> Undefined]
AuthHeader == [type |-> "header", token |-> Some(TheToken), headerName |-> Some(<<"X", "-", "K">>)]
AuthNone == [type |-> "none", token |-> Some(TheToken), headerName |-> Undefined]

NoOptions ==
  [context |-> Undefined, auth |-> Undefined, timeout |-> Undefined, async |-> Undefined]
ContextInputs ==
  {[depth |-> Undefined, extra |-> Some(ExtraValue), circular |-> FALSE],
   [depth |-> Undefined, extra |-> Undefined, circular |-> TRUE]}
    \cup {[depth |-> Some(d), circular |-> FALSE,
           extra |-> IF d < MAX_DEPTH THEN Some(ExtraValue) ELSE Undefined] :
            d \in (MAX_DEPTH - 1)..(MAX_DEPTH + MaxDepthAbove)}
OptionInputs ==
  {Undefined}
    \cup {Some([NoOptions EXCEPT !.context = Some(ctx),
                                 !.auth = IF ctx.depth = Some(MAX_DEPTH)
                                          THEN Some(AuthNone) ELSE Undefined]) :
            ctx \in ContextInputs}
    \cup {Some([NoOptions EXCEPT !.async = Some(TRUE), !.auth = Some(AuthBearer)]),
          Some([NoOptions EXCEPT !.timeout = Some(50), !.async = Some(FALSE),
                                 !.auth = Some(AuthHeader)])}

Statuses == {200, 202, 500}
B_result == <<"{", "\"", "r", "e", "s", "u", "l", "t", "\"", ":", "\"", "o", "k", "\"", "}">>
B_error == <<"{", "\"", "e", "r", "r", "o", "r", "\"", ":", "\"", "n", "o", "\"", "}">>
B_null == <<"n", "u", "l", "l">>
B_text == <<"o", "o", "p", "s">>
Bodies == {B_result, B_error, B_null, B_text}

\* an agent of the mesh may also answer with a result that is no string
B_true == <<"{", "\"", "r", "e", "s", "u", "l", "t", "\"", ":", "t", "r", "u", "e", "}">>
AgentBodies == Bodies \cup {B_true}

IdleCall ==
  [pc |-> "idle", endpoint |-> <<>>, delegationId |-> <<>>, opts |-> Undefined,
   timeout |-> 0, latencyMs |-> 0, response |-> Undefined,
   error |-> Undefined, readFailed |-> FALSE, timerFired |-> FALSE,
   outcome |-> Undefined]

IdleClient ==
  /\ calls = [c \in CallIds |-> IdleCall]
  /\ requests = <<>>

clientVars == <<calls, requests>>

(***************************************************************************)
(* Delegation ledger (AgentRegistry: the delegations table) and the        *)
(* delegation routes of the mesh HTTP server (second createHttpServer).    *)
(* A ledger row is [source_agent, target_agent, task, status, result,      *)
(* error, latency_ms]; created_at and updated_at are left out.             *)
(***************************************************************************)

\* AgentRegistry.getDelegation(id): Undefined (null) when there is no such row
getDelegation(table, id) == IF id \in DOMAIN table THEN Some(table[id]) ELSE Undefined

\* AgentRegistry.logDelegation(record): INSERT INTO delegations; the insert
\* throws on an id that is already there (PRIMARY KEY) and writes nothing
logDelegation(table, record) ==
  IF record.id \in DOMAIN table THEN table
  ELSE [i \in DOMAIN table \cup {record.id} |->
          IF i = record.id
          THEN [source_agent |-> record.source_agent, target_agent |-> record.target_agent,
                task |-> record.task, status |-> record.status, result |-> record.result,
                error |-> record.error, latency_ms |-> record.latency_ms]
          ELSE table[i]]

\* the INSERT of logDelegation throws (UNIQUE constraint failed) when the
\* table already has a row of that id
LogThrows(table, record) == record.id \in DOMAIN table

\* COALESCE(?, column)
Coalesce(new, old) == IF IsSome(new) THEN new ELSE old

\* a value better-sqlite3 binds to a TEXT column: a string or null; run(...)
\* throws a TypeError on a boolean
Bindable(o) == ~IsSome(o) \/ Val(o) # JTrue

\* run(...) of updateDelegation binds every value of the update
UpdateBinds(update) == Bindable(update.result) /\ Bindable(update.error)

\* an update that inserts a row when the table has none of that id
updateDelegation_Upsert(table, id, update) ==
  IF ~UpdateBinds(update) THEN table
  ELSE [i \in DOMAIN table \cup {id} |->
          IF i # id THEN table[i]
          ELSE IF id \in DOMAIN table
               THEN [table[id] EXCEPT !.status = update.status,
                                      !.result = Coalesce(update.result, @),
                                      !.error = Coalesce(update.error, @),
                                      !.latency_ms = Coalesce(update.latency_ms, @)]
          ELSE [source_agent |-> <<>>, target_agent |-> <<>>, task |-> <<>>,
                status |-> update.status, result |-> update.result, error |-> update.error,
                latency_ms |-> update.latency_ms]]

\* AgentRegistry.updateDelegation(id, update): UPDATE delegations ... WHERE id = ?
\* nothing is written when run(...) throws
updateDelegation(table, id, update) ==
  IF id \notin DOMAIN table \/ ~UpdateBinds(update) THEN table
  ELSE [table EXCEPT ![id] =
          [@ EXCEPT !.status = update.status,
                    !.result = Coalesce(update.result, @),
                    !.error = Coalesce(update.error, @),
                    !.latency_ms = Coalesce(update.latency_ms, @)]]

\* check.some(r => r.agent.name === targetName)
HasAccess(check, targetName) == \E i \in 1..Len(check) : check[i].agent.name = targetName

\* the branch of POST /v1/delegate for a named target
RouteNamed(body, agentTable, agent) ==
  IF ~IsSome(agent) THEN [status |-> 404, agent |-> Undefined]
  ELSE IF HasRequirements(body.resources)
          /\ ~HasAccess(discover(Join(Val(agent).capabilities, <<" ">>), list(agentTable),
                                 Undefined, body.resources),
                        Val(body.targetName))
       THEN [status |-> 403, agent |-> Undefined]
  ELSE [status |-> 0, agent |-> agent]

\* the branch of POST /v1/delegate that discovers the target
RouteDiscovered(results) ==
  IF Len(results) = 0 THEN [status |-> 404, agent |-> Undefined]
  ELSE [status |-> 0, agent |-> Some(results[1].agent)]

\* POST /v1/delegate up to the choice of the target: the status of the
\* refusal (0 when the task is dispatched) and the agent
RouteDecision(body, agentTable) ==
  IF ~IsSome(body) THEN [status |-> 400, agent |-> Undefined]
  ELSE IF ~Truthy(Val(body).task) THEN [status |-> 400, agent |-> Undefined]
  ELSE IF Truthy(Val(body).targetName)
       THEN RouteNamed(Val(body), agentTable, get(agentTable, Val(Val(body).targetName)))
  ELSE IF Truthy(Val(body).query)
       THEN RouteDiscovered(discover(Val(Val(body).query), list(agentTable), Some(1),
                                     Val(body).resources))
  ELSE [status |-> 400, agent |-> Undefined]

\* { ...a, auth: a.auth ? { type: a.auth.type } : undefined }
WithoutToken(agent) ==
  [agent EXCEPT !.auth = IF IsSome(agent.auth) THEN Some([type |-> Val(agent.auth).type])
                         ELSE Undefined]

\* GET /v1/agents: the status and the agents of the body
GetAgents(agentTable) ==
  [status |-> 200,
   agents |-> [i \in 1..Len(list(agentTable)) |-> WithoutToken(list(agentTable)[i])]]

\* GET /v1/agents/:name
GetAgent(agentTable, name) ==
  IF ~IsSome(get(agentTable, name)) THEN [status |-> 404, agents |-> <<>>]
  ELSE [status |-> 200, agents |-> <<WithoutToken(Val(get(agentTable, name)))>>]

\* safeInt(c.req.query('limit'), 0) || undefined, limit being the number the
\* parameter reads as (Undefined without one)
LimitParam(limit) == IF IsSome(limit) /\ Val(limit) > 0 THEN limit ELSE Undefined

\* GET /v1/discover: the agents of the results, in order
GetDiscover(agentTable, query, limit, requiredResources) ==
  IF query = <<>> THEN [status |-> 400, agents |-> <<>>]
  ELSE LET results == discover(query, list(agentTable), LimitParam(limit), requiredResources)
       IN  [status |-> 200,
            agents |-> [i \in 1..Len(results) |-> WithoutToken(results[i].agent)]]

\* the mesh_discover tool: JSON.stringify(results, null, 2)
MeshDiscover(agentTable, query, limit) ==
  LET results == discover(query, list(agentTable), limit, Undefined)
  IN  [status |-> 0, agents |-> [i \in 1..Len(results) |-> results[i].agent]]

\* the row logged before the call: status pending
PendingRecord(id, body, targetName) ==
  [id |-> id,
   source_agent |-> IF IsSome(body.sourceAgent) THEN Val(body.sourceAgent) ELSE <<"a", "p", "i">>,
   target_agent |-> targetName, task |-> Val(body.task), status |-> "pending",
   result |-> Undefined, error |-> Undefined, latency_ms |-> Undefined]

RunningUpdate ==
  [status |-> "running", result |-> Undefined, error |-> Undefined, latency_ms |-> Undefined]

\* { context: context ?? {}, auth: agent.auth, async: isAsync }
RouteOptions(body, agent) ==
  Some([context |-> IF IsSome(body.context) THEN body.context
                    ELSE Some([depth |-> Undefined, extra |-> Undefined, circular |-> FALSE]),
        auth |-> agent.auth,
        timeout |-> Undefined,
        async |-> Some(IsSome(body.async) /\ Val(body.async))])

\* the update written when delegate has returned
OutcomeUpdate(outcome) ==
  [status |-> outcome.status, result |-> outcome.result, error |-> outcome.error,
   latency_ms |-> Some(outcome.latencyMs)]

\* the row the mesh_delegate tool logs before the call: status running
ToolRecord(id, targetName, task) ==
  [id |-> id, source_agent |-> <<"m", "c", "p">>, target_agent |-> targetName, task |-> task,
   status |-> "running", result |-> Undefined, error |-> Undefined, latency_ms |-> Undefined]

\* { auth: agent.auth }
ToolOptions(agent) ==
  Some([context |-> Undefined, auth |-> agent.auth, timeout |-> Undefined,
        async |-> Undefined])

\* a callback route that accepts a delivery whatever the status of the entry
CallbackConflict_Never(delegation) == FALSE

\* delegation.status === 'completed' || delegation.status === 'failed'
CallbackConflict(delegation) == delegation.status \in {"completed", "failed"}

\* POST /v1/delegations/:id/result up to the read of the body: the status
\* of the refusal, 0 when the route goes on
CallbackCheck(found) ==
  IF ~IsSome(found) THEN 404
  ELSE IF CallbackConflict(Val(found)) THEN 409
  ELSE 0

\* an update that is completed only for a body that says so
CallbackUpdate_FailedUnlessCompleted(value) ==
  [status |-> IF Member(value, <<"s", "t", "a", "t", "u", "s">>)
                   = Some(<<"c", "o", "m", "p", "l", "e", "t", "e", "d">>)
              THEN "completed" ELSE "failed",
   result |-> Member(value, <<"r", "e", "s", "u", "l", "t">>),
   error |-> Member(value, <<"e", "r", "r", "o", "r">>),
   latency_ms |-> Undefined]

\* the update a delivery writes: body.status === 'failed' ? 'failed' : 'completed'
CallbackUpdate(value) ==
  [status |-> IF Member(value, <<"s", "t", "a", "t", "u", "s">>) = Some(<<"f", "a", "i", "l",
      "e", "d">>) THEN "failed" ELSE "completed",
   result |-> Member(value, <<"r", "e", "s", "u", "l", "t">>), error |-> Member(value, <<"e",
       "r", "r", "o", "r">>),
   latency_ms |-> Undefined]

\* POST /v1/delegations/:id/result once the body was read: 400 for a body
\* that is not JSON, 500 when reading body.status throws (the body is null)
\* or when the update throws
CallbackStatus(parsed) ==
  IF ~parsed.ok THEN 400
  ELSE IF parsed.value.null THEN 500
  ELSE IF ~UpdateBinds(CallbackUpdate(parsed.value)) THEN 500
  ELSE 200

CallbackApply(table, id, parsed) ==
  IF CallbackStatus(parsed) = 200 THEN updateDelegation(table, id, CallbackUpdate(parsed.value))
  ELSE table

MaxDeliveries == 2
DeliveryIds == 1..MaxDeliveries

IdleRoute == [pc |-> "idle", via |-> "none", body |-> Undefined, status |-> 0]
\* body: the text of the request body once it was read
IdleDelivery ==
  [pc |-> "idle", id |-> <<>>, found |-> Undefined, body |-> Undefined, status |-> 0]

IdleServer ==
  /\ delegations = <<>>
  /\ routes = [k \in CallIds |-> IdleRoute]
  /\ deliveries = [h \in DeliveryIds |-> IdleDelivery]
  /\ lastWrite = Undefined
  /\ lastResponse = Undefined

serverVars == <<delegations, routes, deliveries, lastWrite, lastResponse>>

(***************************************************************************)
(* Bounded inputs of the matcher: grants and requirements built from a     *)
(* prefix (nothing, a repo slug, or scheme://host[:port]), plain path      *)
(* segments and, for a grant, a trailing "/" or "/*".                      *)
(***************************************************************************)

MaxGrantSegments == 2
MaxRequiredSegments == 3

Segments == {<<"a">>, <<"a", "b">>}

Prefixes ==
  { <<>>,
    <<"a">>,
    <<"f", "i", "l", "e", ":", "/", "/", "h", "1">>,
    <<"f", "i", "l", "e", ":", "/", "/", "h", "2">>,
    <<"g", "i", "t", ":", "/", "/", "h", "1">>,
    <<"h", "t", "t", "p", ":", "/", "/", "h", "1">>,
    <<"h", "t", "t", "p", ":", "/", "/", "h", "1", ":", "8", "0">> }

RECURSIVE PathsOfLen(_)
PathsOfLen(n) ==
  IF n = 0 THEN {<<>>}
  ELSE {p \o <<"/">> \o seg : p \in PathsOfLen(n - 1), seg \in Segments}

PlainPaths(max) == UNION {PathsOfLen(n) : n \in 0..max}

\* a resource URI is a non-empty string
GrantURIs ==
  {pre \o p \o tail : pre \in Prefixes, p \in PlainPaths(MaxGrantSegments),
                      tail \in {<<>>, <<"/">>, <<"/", "*">>}} \ {<<>>}

RequiredURIs ==
  {pre \o p : pre \in Prefixes, p \in PlainPaths(MaxRequiredSegments)} \ {<<>>}

\* an agent whose only grant is uri, and a query that matches its capability
ProbeAgent(uri) ==
  [name |-> <<"a", "1">>, description |-> <<>>, capabilities |-> <<<<"a">>>>,
   resources |-> <<[uri |-> uri]>>, endpoint |-> <<"e">>, protocol |-> S_http,
   auth |-> Undefined]
ProbeQuery == <<"a">>

\* the values of the variables a specification does not use
IdleMatch ==
  matchCall = [agentUri |-> <<>>, requiredUri |-> <<>>, done |-> TRUE,
               returned |-> FALSE, discovered |-> <<>>]
(***************************************************************************)
(* LoreDiscoveryEngine: discovery through a remote Lore service, with the  *)
(* local engine as fallback.  A response is [failed, status, data]: failed *)
(* when fetch rejects, data Undefined when the body is not JSON, else the  *)
(* parsed body [null, lessons], lessons Undefined or [array, items], an    *)
(* item Undefined (null) or a lesson [id, title, content, tags, score].    *)
(***************************************************************************)
\* new LoreDiscoveryEngine(loreUrl, registry, loreApiKey)
NewLoreDiscoveryEngine(loreUrl, loreApiKey) ==
  [loreUrl |-> StripTrailingSlashes(loreUrl), loreApiKey |-> loreApiKey]

\* the request discoverViaLore sends
LoreRequest(engine, query, limit) ==
  [url |-> engine.loreUrl \o <<"/", "v", "1", "/", "l", "e", "s", "s", "o", "n", "s", "/",
       "s", "e", "a", "r", "c", "h">>,
   headers |-> IF Truthy(engine.loreApiKey)
               THEN SetHeader(BaseHeaders, H_Authorization,
                              <<"B", "e", "a", "r", "e", "r", " ">> \o Val(engine.loreApiKey))
               ELSE BaseHeaders,
   body |-> [query |-> query, limit |-> IF IsSome(limit) THEN Val(limit) ELSE 10]]

\* the entry data.lessons.map builds for a lesson
LoreEntry(lesson) ==
  [agent |-> [name |-> lesson.title, description |-> lesson.content,
              capabilities |-> IF IsSome(lesson.tags) THEN Val(lesson.tags) ELSE <<>>,
              endpoint |-> <<>>, protocol |-> <<"m", "c", "p">>,
              registered_at |-> <<>>, last_seen |-> <<>>],
   score |-> IF IsSome(lesson.score) THEN Val(lesson.score) ELSE [num |-> 1, den |-> 2],
   matchedTerms |-> IF IsSome(lesson.tags) THEN Val(lesson.tags) ELSE <<>>]

\* data.lessons.map(...) throws a TypeError: data is null, data.lessons is
\* no array, or a lesson is null
LoreMapThrows(data) ==
  \/ data.null
  \/ ~IsSome(data.lessons)
  \/ ~Val(data.lessons).array
  \/ \E i \in 1..Len(Val(data.lessons).items) : ~IsSome(Val(data.lessons).items[i])

\* data.lessons.map(...)
LoreRanking(data) ==
  [i \in 1..Len(Val(data.lessons).items) |-> LoreEntry(Val(Val(data.lessons).items[i]))]

\* discoverViaLore throws: fetch rejects, the status is no success,
\* response.json() rejects, or the map throws
discoverViaLoreThrows(response) ==
  \/ response.failed
  \/ ~ResponseOk(response.status)
  \/ ~IsSome(response.data)
  \/ LoreMapThrows(Val(response.data))

\* what LoreDiscoveryEngine.discover returns once the remote call has
\* settled: the remote ranking, or in the catch block the local ranking
LoreDiscoverResult(response, query, agentTable, limit) ==
  IF discoverViaLoreThrows(response)
  THEN discover(query, list(agentTable), limit, Undefined)
  ELSE LoreRanking(Val(response.data))

\* no call of LoreDiscoveryEngine.discover was made
IdleLore ==
  [pc |-> "idle", query |-> <<>>, limit |-> Undefined, request |-> Undefined,
   response |-> Undefined, results |-> <<>>]

IdleRegistry ==
  /\ agents = <<>>
  /\ lastRegister = Undefined
  /\ lastDiscover = Undefined
  /\ loreCall = IdleLore

matchVars == <<matchCall>>
registryVars == <<agents, lastRegister, lastDiscover, loreCall>>

InitMatch ==
  /\ matchCall \in [agentUri : GrantURIs, requiredUri : RequiredURIs,
                    done : {FALSE}, returned : {FALSE}, discovered : {<<>>}]
  /\ IdleRegistry
  /\ IdleClient
  /\ IdleServer

\* uriMatches(agentUri, requiredUri) is called, and discover is asked for the
\* requirement on a registry holding one agent with that grant
Match ==
  /\ ~matchCall.done
  /\ matchCall' =
       [matchCall EXCEPT
          !.done = TRUE,
          !.returned = uriMatches(matchCall.agentUri, matchCall.requiredUri),
          !.discovered = discover(ProbeQuery, <<ProbeAgent(matchCall.agentUri)>>,
                                  Undefined, Some(<<[uri |-> matchCall.requiredUri]>>))]
  /\ UNCHANGED <<registryVars, clientVars, serverVars>>

vars ==
  <<matchCall, agents, lastRegister, lastDiscover, loreCall, calls, requests, delegations,
    routes, deliveries, lastWrite, lastResponse>>

SpecMatch == InitMatch /\ [][Match]_vars


(***************************************************************************)
(* The registry and discovery as a state machine: agents are registered    *)
(* and unregistered, and discover is called on the registry.  discover is   *)
(* synchronous: its result is handed to the caller before anything else    *)
(* runs, and it is ephemeral (recomputed per query).                       *)
(***************************************************************************)

MaxAgents == 2

AgentNames == {<<"a", "1">>, <<"a", "2">>, <<"b", "1">>}

U_file_h1_a_glob == <<"f", "i", "l", "e", ":", "/", "/", "h", "1", "/", "a", "/", "*">>
U_file_h2_a_glob == <<"f", "i", "l", "e", ":", "/", "/", "h", "2", "/", "a", "/", "*">>
U_file_h1_a_ab == <<"f", "i", "l", "e", ":", "/", "/", "h", "1", "/", "a", "/", "a", "b">>
U_git_h1 == <<"g", "i", "t", ":", "/", "/", "h", "1">>
U_git_h1_a == <<"g", "i", "t", ":", "/", "/", "h", "1", "/", "a">>
\* not a URL (the port is not a number); the grant git://h1 is a prefix of it
U_git_h1_badport == <<"g", "i", "t", ":", "/", "/", "h", "1", ":", "x">>

\* (description, capabilities, endpoint, protocol, auth) of the agents that
\* get registered
Profiles ==
  { [description |-> <<"A", "b">>, capabilities |-> <<<<"b", "a">>>>,
     endpoint |-> <<"e">>, protocol |-> S_http, auth |-> Undefined],
    [description |-> <<>>, capabilities |-> <<<<"a", "b">>, <<"c">>>>,
     endpoint |-> <<"f">>, protocol |-> <<"m", "c", "p">>, auth |-> Some(AuthBearer)] }

\* the resource grants of the agents that get registered
ResourceLists ==
  { <<>>,
    <<[uri |-> U_file_h1_a_glob]>>,
    <<[uri |-> U_file_h2_a_glob], [uri |-> U_file_h1_a_glob], [uri |-> U_git_h1]>>,
    <<[uri |-> U_file_h1_a_ab], [uri |-> U_file_h1_a_glob]>> }

RegisterInputs ==
  {[name |-> n, description |-> p.description, capabilities |-> p.capabilities,
    resources |-> r, endpoint |-> p.endpoint, protocol |-> p.protocol, auth |-> p.auth] :
     n \in AgentNames, p \in Profiles, r \in ResourceLists}

Queries ==
  { <<"a", "b">>,                          \* one token
    <<"a", "b", " ", "b", "a">>,           \* two tokens
    <<"B", "A", "-", "a", "b">>,           \* upper case and a separator
    <<"a", "b", " ", "a", "b">>,           \* a repeated token
    <<"x">>,                               \* a token no agent has
    <<"c">>,                               \* a token one profile has
    <<>>,                                  \* the empty string
    <<" ", "-">> }                         \* no token at all

Limits == {Undefined, Some(0), Some(1), Some(2)}

RequirementLists ==
  { Undefined,
    Some(<<>>),
    Some(<<[uri |-> U_file_h1_a_ab]>>),
    Some(<<[uri |-> U_file_h1_a_ab], [uri |-> U_git_h1_a]>>),
    Some(<<[uri |-> U_file_h1_a_ab], [uri |-> U_file_h1_a_glob]>>),
    Some(<<[uri |-> U_git_h1_badport]>>) }

InitDiscover ==
  /\ agents = <<>>
  /\ lastRegister = Undefined
  /\ lastDiscover = Undefined
  /\ loreCall = IdleLore
  /\ IdleMatch
  /\ IdleClient
  /\ IdleServer

\* registry.register(input)
Register(input) ==
  /\ lastRegister = Undefined
  /\ lastDiscover = Undefined
  /\ loreCall.pc # "returned"
  /\ RegisterAccepts(input)
  /\ Cardinality(DOMAIN agents \cup {input.name}) <= MaxAgents
  /\ agents' = register(agents, input)
  /\ lastRegister' = Some([input |-> input, found |-> get(agents, input.name),
                           returned |-> get(agents', input.name)])
  /\ UNCHANGED <<lastDiscover, loreCall, matchVars, clientVars, serverVars>>

\* the caller has taken the record register returned
RegisterReturned ==
  /\ lastRegister # Undefined
  /\ lastRegister' = Undefined
  /\ UNCHANGED <<agents, lastDiscover, loreCall, matchVars, clientVars, serverVars>>

\* registry.unregister(name)
Unregister(name) ==
  /\ lastRegister = Undefined
  /\ lastDiscover = Undefined
  /\ loreCall.pc # "returned"
  /\ name \in DOMAIN agents
  /\ agents' = unregister(agents, name)
  /\ UNCHANGED <<lastRegister, lastDiscover, loreCall, matchVars, clientVars, serverVars>>

\* discover that also drops the first listed agent from the registry
Discover_Unregisters(query, limit, requiredResources) ==
  /\ lastRegister = Undefined
  /\ lastDiscover = Undefined
  /\ lastDiscover' =
       Some([query |-> query, limit |-> limit, requiredResources |-> requiredResources,
             listed |-> list(agents),
             results |-> discover(query, list(agents), limit, requiredResources)])
  /\ agents' = IF agents = <<>> THEN agents
               ELSE unregister(agents, list(agents)[1].name)
  /\ UNCHANGED <<lastRegister, loreCall, matchVars, clientVars, serverVars>>

\* discovery.discover(query, registry, limit, requiredResources)
Discover(query, limit, requiredResources) ==
  /\ lastRegister = Undefined
  /\ lastDiscover = Undefined
  /\ lastDiscover' =
       Some([query |-> query, limit |-> limit, requiredResources |-> requiredResources,
             listed |-> list(agents),
             results |-> discover(query, list(agents), limit, requiredResources)])
  /\ UNCHANGED <<agents, lastRegister, loreCall, matchVars, clientVars, serverVars>>

\* the caller has taken the result of discover
DiscoverReturned ==
  /\ lastDiscover # Undefined
  /\ lastDiscover' = Undefined
  /\ UNCHANGED <<agents, lastRegister, loreCall, matchVars, clientVars, serverVars>>

NextDiscover ==
  \/ \E input \in RegisterInputs : Register(input)
  \/ RegisterReturned
  \/ \E name \in AgentNames : Unregister(name)
  \/ \E q \in Queries, l \in Limits, rr \in RequirementLists : Discover(q, l, rr)
  \/ DiscoverReturned

SpecDiscover == InitDiscover /\ [][NextDiscover]_vars

(***************************************************************************)
(* Ranking by matched tokens: discover is asked on registries made of the  *)
(* three agents of the capability-matching tests and of one agent that has *)
(* capabilities only.                                                      *)
(***************************************************************************)
\* registry.register({ name: 'search-agent', ... })
SearchAgent ==
  [name |-> <<"s", "e", "a", "r", "c", "h", "-", "a", "g", "e", "n", "t">>,
   description |->
     <<"W", "e", "b", " ", "s", "e", "a", "r", "c", "h", " ", "a", "n", "d", " ", "i",
     "n", "d", "e", "x", "i", "n", "g">>,
   capabilities |-> <<<<"s", "e", "a", "r", "c", "h">>, <<"i", "n", "d", "e", "x">>>>,
   resources |-> <<>>,
   endpoint |-> <<"h", "t", "t", "p", ":", "/", "/", "l", "o", "c", "a", "l", "h", "o", "s", "t",
    ":", "1">>,
   protocol |-> <<"m", "c", "p">>, auth |-> Undefined]

\* registry.register({ name: 'code-agent', ... })
CodeAgent ==
  [name |-> <<"c", "o", "d", "e", "-", "a", "g", "e", "n", "t">>,
   description |->
     <<"C", "o", "d", "e", " ", "g", "e", "n", "e", "r", "a", "t", "i", "o", "n", " ",
     "a", "n", "d", " ", "r", "e", "v", "i", "e", "w">>,
   capabilities |-> <<<<"c", "o", "d", "e">>, <<"r", "e", "v", "i", "e", "w">>>>,
   resources |-> <<>>,
   endpoint |-> <<"h", "t", "t", "p", ":", "/", "/", "l", "o", "c", "a", "l", "h", "o", "s", "t",
    ":", "2">>,
   protocol |-> <<"m", "c", "p">>, auth |-> Undefined]

\* registry.register({ name: 'data-agent', ... })
DataAgent ==
  [name |-> <<"d", "a", "t", "a", "-", "a", "g", "e", "n", "t">>,
   description |->
     <<"D", "a", "t", "a", " ", "a", "n", "a", "l", "y", "s", "i", "s", " ", "a", "n",
     "d", " ", "s", "e", "a", "r", "c", "h">>,
   capabilities |-> <<<<"d", "a", "t", "a">>, <<"s", "e", "a", "r", "c", "h">>>>,
   resources |-> <<>>,
   endpoint |-> <<"h", "t", "t", "p", ":", "/", "/", "l", "o", "c", "a", "l", "h", "o", "s", "t",
    ":", "3">>,
   protocol |-> <<"m", "c", "p">>, auth |-> Undefined]

\* an agent without a description
BareAgent ==
  [name |-> <<"b", "a", "r", "e", "-", "a", "g", "e", "n", "t">>,
   description |->
     <<>>,
   capabilities |-> <<<<"w", "e", "b">>, <<"s", "e", "a", "r", "c", "h">>>>,
   resources |-> <<>>,
   endpoint |-> <<"h", "t", "t", "p", ":", "/", "/", "l", "o", "c", "a", "l", "h", "o", "s", "t",
    ":", "4">>,
   protocol |-> <<"m", "c", "p">>, auth |-> Undefined]

RankAgents == {SearchAgent, CodeAgent, DataAgent, BareAgent}

\* the registries: every set of these agents, keyed by name
RankRegistries ==
  {[n \in {a.name : a \in chosen} |-> CHOOSE a \in chosen : a.name = n] :
     chosen \in SUBSET RankAgents}

Q_WebSearchIndexing ==
  <<"w", "e", "b", " ", "s", "e", "a", "r", "c", "h", " ", "i", "n", "d", "e", "x", "i",
  "n", "g">>
RankQueries ==
  {Q_WebSearchIndexing,
   <<"s", "e", "a", "r", "c", "h">>,
   <<"c", "o", "d", "e", " ", "r", "e", "v", "i", "e", "w", " ", "s", "e", "a", "r",
   "c", "h">>,
   <<"d", "a", "t", "a", " ", "d", "a", "t", "a", " ", "w", "e", "b">>}

RankLimits == {Undefined, Some(1), Some(2)}
RankRequirements == {Undefined, Some(<<>>)}

InitRank ==
  /\ agents \in RankRegistries
  /\ lastRegister = Undefined
  /\ lastDiscover = Undefined
  /\ loreCall = IdleLore
  /\ IdleMatch
  /\ IdleClient
  /\ IdleServer

NextRank ==
  \/ \E q \in RankQueries, l \in RankLimits, rr \in RankRequirements : Discover(q, l, rr)
  \/ DiscoverReturned

SpecRank == InitRank /\ [][NextRank]_vars

(***************************************************************************)
(* Discovery through Lore as a state machine: discover is called, the      *)
(* remote call settles, and the caller takes the result.  The registry may *)
(* change while the remote call is in flight.                              *)
(***************************************************************************)
LoreEngines ==
  { NewLoreDiscoveryEngine(<<"h", "t", "t", "p", ":", "/", "/", "l", "/">>, Undefined),
    NewLoreDiscoveryEngine(<<"h", "t", "t", "p", ":", "/", "/", "l">>, Some(TheToken)) }

LoreQueries == {<<"a", "b">>, <<"c">>, <<>>}
LoreLimits == {Undefined, Some(1)}

L_full ==
  [id |-> Some(<<"1">>), title |-> Some(<<"r", "1">>), content |-> Some(<<"x">>),
   tags |-> Some(<<<<"a", "b">>>>), score |-> Some([num |-> 19, den |-> 20])]
L_bare ==
  [id |-> Some(<<"2">>), title |-> Some(<<"r", "2">>), content |-> Some(<<"y">>),
   tags |-> Undefined, score |-> Undefined]
L_empty ==
  [id |-> Undefined, title |-> Undefined, content |-> Undefined,
   tags |-> Undefined, score |-> Undefined]

\* the parsed body { lessons: items }
LoreData(items) == Some([null |-> FALSE, lessons |-> Some([array |-> TRUE, items |-> items])])

\* the bodies Lore answers with: no JSON, null, {}, { lessons: "x" }, and
\* lesson lists
LoreBodies ==
  { Undefined,
    Some([null |-> TRUE, lessons |-> Undefined]),
    Some([null |-> FALSE, lessons |-> Undefined]),
    Some([null |-> FALSE, lessons |-> Some([array |-> FALSE, items |-> <<>>])]),
    LoreData(<<>>),
    LoreData(<<Some(L_full), Some(L_bare)>>),
    LoreData(<<Undefined>>),
    LoreData(<<Some(L_empty)>>) }

LoreStatuses == {200, 500}

InitLore ==
  /\ IdleRegistry
  /\ IdleMatch
  /\ IdleClient
  /\ IdleServer

\* engine.discover(query, limit), up to await fetch(...)
LoreDiscover(engine, query, limit) ==
  /\ lastRegister = Undefined
  /\ loreCall.pc = "idle"
  /\ loreCall' = [IdleLore EXCEPT !.pc = "fetching", !.query = query, !.limit = limit,
                                  !.request = Some(LoreRequest(engine, query, limit))]
  /\ UNCHANGED <<agents, lastRegister, lastDiscover, matchVars, clientVars, serverVars>>

\* the remote call has settled with the response: discover returns
LoreSettles(response) ==
  /\ lastRegister = Undefined
  /\ loreCall.pc = "fetching"
  /\ loreCall' = [loreCall EXCEPT
                    !.pc = "returned",
                    !.response = Some(response),
                    !.results = LoreDiscoverResult(response, loreCall.query, agents,
                                                   loreCall.limit)]
  /\ UNCHANGED <<agents, lastRegister, lastDiscover, matchVars, clientVars, serverVars>>

\* fetch rejects: Lore is unreachable
LoreFetchFails ==
  \E failed \in {TRUE} : LoreSettles([failed |-> failed, status |-> 0, data |-> Undefined])

\* Lore answers
LoreResponds(status, data) == LoreSettles([failed |-> FALSE, status |-> status, data |-> data])

\* the caller has taken the result
LoreReturned ==
  /\ loreCall.pc = "returned"
  /\ loreCall' = IdleLore
  /\ UNCHANGED <<agents, lastRegister, lastDiscover, matchVars, clientVars, serverVars>>

NextLore ==
  \/ \E input \in RegisterInputs : Register(input)
  \/ RegisterReturned
  \/ \E name \in AgentNames : Unregister(name)
  \/ \E e \in LoreEngines, q \in LoreQueries, l \in LoreLimits : LoreDiscover(e, q, l)
  \/ LoreFetchFails
  \/ \E s \in LoreStatuses, d \in LoreBodies : LoreResponds(s, d)
  \/ LoreReturned

SpecLore == InitLore /\ [][NextLore]_vars

(***************************************************************************)
(* The delegation client as a state machine: delegate is invoked, and the  *)
(* endpoint answers, refuses, or stays silent until the timer of           *)
(* AbortSignal.timeout fires.  Each step that reads Date.now() draws the   *)
(* time elapsed since the start of the call from Elapsed.                  *)
(***************************************************************************)
InitClient ==
  /\ IdleClient
  /\ IdleServer
  /\ IdleMatch
  /\ IdleRegistry

InFlight(c) == calls[c].pc \in {"fetching", "reading"}

\* a client that counts its calls in a field of its own (this.depth) and
\* adds the count to the depth it sends
Delegate_SharedDepth(c, endpoint, opts, elapsed) ==
  /\ calls[c].pc = "idle"
  /\ \A d \in 1..(c - 1) : calls[d].pc # "idle"
  /\ calls' = [calls EXCEPT ![c] = delegateEntry(TheClient, endpoint, DelegationIdOf(c),
                                                 TheTask, opts, elapsed)]
  /\ requests' =
       IF calls'[c].pc = "fetching"
       THEN SendRequest(requests,
                        [call |-> c, endpoint |-> endpoint,
                         headers |-> RequestHeaders(OptAuth(opts)),
                         body |-> [RequestBody(TheClient, DelegationIdOf(c), TheTask, opts)
                                     EXCEPT !.context.depth =
                                       Some(DepthOf(opts) + 1 + Len(requests))]])
       ELSE requests
  /\ UNCHANGED <<matchVars, registryVars, serverVars>>

\* client.delegate(endpoint, DelegationIdOf(c), TheTask, opts)
Delegate(c, endpoint, opts, elapsed) ==
  /\ calls[c].pc = "idle"
  /\ \A d \in 1..(c - 1) : calls[d].pc # "idle"
  /\ calls' = [calls EXCEPT ![c] = delegateEntry(TheClient, endpoint, DelegationIdOf(c),
                                                 TheTask, opts, elapsed)]
  /\ requests' =
       IF calls'[c].pc = "fetching"
       THEN SendRequest(requests,
                        [call |-> c, endpoint |-> endpoint,
                         headers |-> RequestHeaders(OptAuth(opts)),
                         body |-> RequestBody(TheClient, DelegationIdOf(c), TheTask, opts)])
       ELSE requests
  /\ UNCHANGED <<matchVars, registryVars, serverVars>>

\* the connection is refused or breaks before the response headers
FetchFails(c, elapsed) ==
  /\ calls[c].pc = "fetching"
  /\ calls' = [calls EXCEPT ![c] = delegateCaught(calls[c], ErrFetchFailed, elapsed)]
  /\ UNCHANGED <<requests, matchVars, registryVars, serverVars>>

\* the timer of AbortSignal.timeout(timeout) fires: a pending fetch rejects
\* with a TimeoutError, a pending body read is aborted
Deadline(c, elapsed) ==
  /\ InFlight(c)
  /\ calls' = [calls EXCEPT ![c] =
                 IF calls[c].pc = "fetching"
                 THEN [delegateCaught(calls[c], ErrTimeout, elapsed) EXCEPT !.timerFired = TRUE]
                 ELSE [delegateRead(calls[c], Undefined) EXCEPT !.timerFired = TRUE]]
  /\ UNCHANGED <<requests, matchVars, registryVars, serverVars>>

TimerFires(c) == \E elapsed \in Elapsed : Deadline(c, elapsed)

\* the response headers arrive
Respond(c, status, body, elapsed) ==
  /\ calls[c].pc = "fetching"
  /\ calls' = [calls EXCEPT ![c] = delegateResponded(calls[c], status, body, elapsed)]
  /\ UNCHANGED <<requests, matchVars, registryVars, serverVars>>

\* the body has been read to its end
BodyRead(c) ==
  /\ calls[c].pc = "reading"
  /\ calls' = [calls EXCEPT ![c] = delegateRead(calls[c], Some(Val(calls[c].response).body))]
  /\ UNCHANGED <<requests, matchVars, registryVars, serverVars>>

\* the connection breaks while the body is read
ReadFails(c) ==
  /\ calls[c].pc = "reading"
  /\ calls' = [calls EXCEPT ![c] = delegateRead(calls[c], Undefined)]
  /\ UNCHANGED <<requests, matchVars, registryVars, serverVars>>

NextClient ==
  \/ \E c \in CallIds, e \in Endpoints, o \in OptionInputs, t \in Elapsed : Delegate(c, e, o, t)
  \/ \E c \in CallIds, t \in Elapsed : FetchFails(c, t)
  \/ \E c \in CallIds : TimerFires(c)
  \/ \E c \in CallIds, s \in Statuses, b \in Bodies, t \in Elapsed : Respond(c, s, b, t)
  \/ \E c \in CallIds : BodyRead(c)
  \/ \E c \in CallIds : ReadFails(c)

SpecClient == InitClient /\ [][NextClient]_vars

\* the timer always fires
SpecClientFair == SpecClient /\ \A c \in CallIds : WF_vars(TimerFires(c))

(***************************************************************************)
(* Several calls of delegate on one client at a time: a call suspended in  *)
(* await fetch(...) or in the read of the body leaves the event loop to    *)
(* the other calls, so their steps interleave in every order.              *)
(***************************************************************************)
MaxConcurrent == 2

ConcurrentIds == 1..MaxConcurrent

\* the options of the concurrent calls: none, a context at the ceiling, a
\* context above it, a deadline of the call's own
ConcurrentOptions ==
  {Undefined,
   Some([NoOptions EXCEPT !.context = Some([depth |-> Some(MAX_DEPTH), extra |-> Undefined,
                                            circular |-> FALSE])]),
   Some([NoOptions EXCEPT !.context = Some([depth |-> Some(MAX_DEPTH + 1),
                                            extra |-> Undefined, circular |-> FALSE])]),
   Some([NoOptions EXCEPT !.timeout = Some(50)])}

ConcurrentStatuses == {200, 500}
ConcurrentBodies == {B_result, B_text}

InitConcurrent ==
  /\ calls = [c \in ConcurrentIds |-> IdleCall]
  /\ requests = <<>>
  /\ IdleServer
  /\ IdleMatch
  /\ IdleRegistry

NextConcurrent ==
  \/ \E c \in ConcurrentIds, o \in ConcurrentOptions : Delegate(c, E_agent, o, 0)
  \/ \E c \in ConcurrentIds : FetchFails(c, MaxElapsed)
  \/ \E c \in ConcurrentIds : TimerFires(c)
  \/ \E c \in ConcurrentIds, s \in ConcurrentStatuses, b \in ConcurrentBodies :
       Respond(c, s, b, MaxElapsed)
  \/ \E c \in ConcurrentIds : BodyRead(c)
  \/ \E c \in ConcurrentIds : ReadFails(c)

SpecConcurrent == InitConcurrent /\ [][NextConcurrent]_vars

(***************************************************************************)
(* A chain of delegations: the agent that receives the request of one hop  *)
(* delegates in its turn, passing on the context it received (as           *)
(* POST /v1/delegate does with the context of its body), and answers once  *)
(* its own delegation has returned.  The agents are picked freely from     *)
(* ChainEndpoints, so the chain may go round in a cycle.                   *)
(***************************************************************************)
MaxHops == 8

HopIds == 1..MaxHops

E_other == <<"h", "t", "t", "p", ":", "/", "/", "h", "2", "/", "t">>

\* two agents that delegate to each other
NextInCycle(endpoint) == IF endpoint = E_agent THEN E_other ELSE E_agent

\* the context of the first caller: none, depth 0, or a depth on the way
ChainStarts ==
  {Undefined} \cup
  {Some([NoOptions EXCEPT !.context = Some([depth |-> Some(d), extra |-> Some(ExtraValue),
                                            circular |-> FALSE])]) : d \in {0, MAX_DEPTH - 1}}

InitChain ==
  /\ calls = [c \in HopIds |-> IdleCall]
  /\ requests = <<>>
  /\ IdleServer
  /\ IdleMatch
  /\ IdleRegistry

\* the request of hop c, when one was sent
RequestOfHop(c) == {i \in 1..Len(requests) : requests[i].call = c}

\* the first caller delegates
ChainStart(opts) ==
  /\ calls[1].pc = "idle"
  /\ Delegate(1, E_agent, opts, 0)

\* the agent called at hop c - 1 delegates to the other agent with the
\* context it received
ChainHop(c) ==
  /\ c > 1
  /\ calls[c - 1].pc = "fetching"
  /\ \E i \in RequestOfHop(c - 1) :
       Delegate(c, NextInCycle(calls[c - 1].endpoint),
                Some([NoOptions EXCEPT !.context = Some(requests[i].body.context)]), 0)

\* the agent called at hop c answers once its own delegation has returned
ChainAnswer(c, status, body) ==
  /\ c < MaxHops => calls[c + 1].pc = "returned"
  /\ Respond(c, status, body, MaxElapsed)

\* the agent called at hop c cannot be reached
ChainBreaks(c) ==
  /\ c < MaxHops => calls[c + 1].pc = "idle"
  /\ FetchFails(c, MaxElapsed)

NextChain ==
  \/ \E o \in ChainStarts : ChainStart(o)
  \/ \E c \in HopIds : ChainHop(c)
  \/ \E c \in HopIds, s \in ConcurrentStatuses : ChainAnswer(c, s, B_result)
  \/ \E c \in HopIds : BodyRead(c)
  \/ \E c \in HopIds : ChainBreaks(c)

SpecChain == InitChain /\ [][NextChain]_vars

(***************************************************************************)
(* The mesh HTTP server as a state machine: POST /v1/delegate logs the     *)
(* delegation, calls the agent through the delegation client and records   *)
(* the outcome; agents deliver results to POST /v1/delegations/:id/result. *)
(***************************************************************************)
\* new DelegationClient() in createHttpServer
ServerClient == NewDelegationClient(Undefined, Undefined, Undefined)

A_one == <<"a", "1">>
A_two == <<"a", "2">>
A_none == <<"z">>
\* an agent registered without capabilities
A_bare == <<"a", "3">>

\* the agents registered with the server
ServerAgents ==
  register(
    register(
      register(<<>>,
               [name |-> A_one, description |-> <<>>, capabilities |-> <<<<"a">>>>,
                resources |-> <<[uri |-> U_file_h1_a_glob]>>, endpoint |-> E_agent,
                protocol |-> S_http, auth |-> Undefined]),
      [name |-> A_two, description |-> <<>>, capabilities |-> <<<<"b">>>>,
       resources |-> <<>>, endpoint |-> E_invalid, protocol |-> S_http, auth |-> Undefined]),
    [name |-> A_bare, description |-> <<>>, capabilities |-> <<>>,
     resources |-> <<[uri |-> U_file_h1_a_glob]>>, endpoint |-> E_invalid,
     protocol |-> S_http, auth |-> Undefined])

NoBody ==
  [task |-> Some(TheTask), context |-> Undefined, targetName |-> Undefined,
   query |-> Undefined, resources |-> Undefined, sourceAgent |-> Undefined,
   async |-> Undefined]

\* queries that two of the registered agents match: "a b", one token each, and
\* "b a b", more tokens for the agent listed second
Q_a_b == <<"a", " ", "b">>
Q_b_a_b == <<"b", " ", "a", " ", "b">>

\* the bodies of POST /v1/delegate, Undefined being a body that is not JSON
RouteBodies ==
  { Undefined,
    Some(NoBody),
    Some([NoBody EXCEPT !.task = Undefined, !.targetName = Some(A_one)]),
    Some([NoBody EXCEPT !.targetName = Some(A_one)]),
    Some([NoBody EXCEPT !.targetName = Some(A_one), !.async = Some(TRUE)]),
    Some([NoBody EXCEPT !.targetName = Some(A_one), !.sourceAgent = Some(A_two),
                        !.context = Some([depth |-> Some(MAX_DEPTH + MaxDepthAbove),
                                          extra |-> Undefined, circular |-> FALSE])]),
    Some([NoBody EXCEPT !.targetName = Some(A_two)]),
    Some([NoBody EXCEPT !.targetName = Some(A_none)]),
    Some([NoBody EXCEPT !.targetName = Some(A_one),
                        !.resources = Some(<<[uri |-> U_file_h1_a_ab]>>)]),
    Some([NoBody EXCEPT !.targetName = Some(A_one),
                        !.resources = Some(<<[uri |-> U_git_h1_a]>>)]),
    Some([NoBody EXCEPT !.targetName = Some(A_bare),
                        !.resources = Some(<<[uri |-> U_file_h1_a_ab]>>)]),
    Some([NoBody EXCEPT !.query = Some(Q_a_b), !.async = Some(TRUE)]),
    Some([NoBody EXCEPT !.query = Some(Q_b_a_b)]),
    Some([NoBody EXCEPT !.query = Some(Q_b_a_b),
                        !.resources = Some(<<[uri |-> U_file_h1_a_ab]>>)]),
    Some([NoBody EXCEPT !.query = Some(<<"b">>),
                        !.resources = Some(<<[uri |-> U_file_h1_a_ab]>>)]),
    Some([NoBody EXCEPT !.query = Some(<<"c">>)]) }

\* the targets the mesh_delegate tool is called with
ToolTargets == {A_one, A_none}

\* the ids deliveries are addressed to: those the server hands out, and another
CallbackIds == {DelegationIdOf(k) : k \in CallIds} \cup {<<"x">>}

D_completed == <<"{", "\"", "s", "t", "a", "t", "u", "s", "\"", ":", "\"", "c", "o", "m", "p",
    "l", "e", "t", "e", "d", "\"", ",", "\"", "r", "e", "s", "u", "l", "t", "\"", ":", "\"",
    "r", "\"", "}">>
D_failed == <<"{", "\"", "s", "t", "a", "t", "u", "s", "\"", ":", "\"", "f", "a", "i", "l",
    "e", "d", "\"", ",", "\"", "e", "r", "r", "o", "r", "\"", ":", "\"", "e", "\"", "}">>
D_empty == <<"{", "}">>
CallbackBodies == {D_completed, D_failed, D_empty, B_null, B_text}

InitServer ==
  /\ IdleServer
  /\ IdleClient
  /\ IdleMatch
  /\ agents = ServerAgents
  /\ lastRegister = Undefined
  /\ lastDiscover = Undefined
  /\ loreCall = IdleLore

\* a route that logs the request it refuses as a failed delegation
RouteRefuses_LogsAttempt(k, body, decision) ==
  /\ decision.status # 0
  /\ routes' = [routes EXCEPT ![k] = [pc |-> "responded", via |-> "http", body |-> body,
                                      status |-> decision.status]]
  /\ delegations' =
       logDelegation(delegations,
                     [id |-> DelegationIdOf(k), source_agent |-> <<"a", "p", "i">>,
                      target_agent |-> <<>>, task |-> <<>>, status |-> "failed",
                      result |-> Undefined, error |-> Undefined, latency_ms |-> Undefined])
  /\ UNCHANGED <<calls, requests>>

\* the route refuses the request
RouteRefuses(k, body, decision) ==
  /\ decision.status # 0
  /\ routes' = [routes EXCEPT ![k] = [pc |-> "responded", via |-> "http", body |-> body,
                                      status |-> decision.status]]
  /\ UNCHANGED <<delegations, calls, requests>>

\* the route logs the delegation as pending, then running, and calls delegate
RouteDispatches(k, body, decision, elapsed) ==
  /\ decision.status = 0
  /\ delegations' =
       updateDelegation(
         logDelegation(delegations,
                       PendingRecord(DelegationIdOf(k), Val(body), Val(decision.agent).name)),
         DelegationIdOf(k), RunningUpdate)
  /\ calls' = [calls EXCEPT ![k] =
                 delegateEntry(ServerClient, Val(decision.agent).endpoint, DelegationIdOf(k),
                               Val(Val(body).task),
                               RouteOptions(Val(body), Val(decision.agent)), elapsed)]
  /\ requests' =
       IF calls'[k].pc = "fetching"
       THEN SendRequest(requests,
                        [call |-> k, endpoint |-> Val(decision.agent).endpoint,
                         headers |-> RequestHeaders(Val(decision.agent).auth),
                         body |-> RequestBody(ServerClient, DelegationIdOf(k),
                                              Val(Val(body).task),
                                              RouteOptions(Val(body), Val(decision.agent)))])
       ELSE requests
  /\ routes' = [routes EXCEPT ![k] = [pc |-> "awaiting", via |-> "http", body |-> body,
                                      status |-> 0]]

\* POST /v1/delegate, up to await delegationClient.delegate(...)
PostDelegate(k, body, elapsed) ==
  /\ routes[k].pc = "idle"
  /\ \A j \in 1..(k - 1) : routes[j].pc # "idle"
  /\ \/ RouteRefuses(k, body, RouteDecision(body, agents))
     \/ RouteDispatches(k, body, RouteDecision(body, agents), elapsed)
  /\ UNCHANGED <<deliveries, lastWrite, lastResponse, matchVars, registryVars>>

\* POST /v1/delegate, after delegate has returned: the outcome is recorded
\* and answered with 200; app.onError answers 500 when the update throws
PostDelegateDone(k) ==
  /\ routes[k].pc = "awaiting"
  /\ routes[k].via = "http"
  /\ calls[k].pc = "returned"
  /\ delegations' = updateDelegation(delegations, DelegationIdOf(k),
                                     OutcomeUpdate(Val(calls[k].outcome)))
  /\ routes' = [routes EXCEPT ![k].pc = "responded",
                              ![k].status = IF UpdateBinds(OutcomeUpdate(Val(calls[k].outcome)))
                                            THEN 200 ELSE 500]
  /\ UNCHANGED <<clientVars, deliveries, lastWrite, lastResponse, matchVars, registryVars>>

\* the tool answers that the agent is not in the registry
ToolRefuses(k, targetName, task) ==
  /\ ~IsSome(get(agents, targetName))
  /\ routes' = [routes EXCEPT ![k] =
                  [pc |-> "responded", via |-> "mcp",
                   body |-> Some([NoBody EXCEPT !.task = Some(task),
                                                !.targetName = Some(targetName)]),
                   status |-> 0]]
  /\ UNCHANGED <<delegations, calls, requests>>

\* the tool logs the delegation as running and calls delegate
ToolDispatches(k, targetName, task, agent, elapsed) ==
  /\ IsSome(agent)
  /\ delegations' = logDelegation(delegations, ToolRecord(DelegationIdOf(k), targetName, task))
  /\ calls' = [calls EXCEPT ![k] =
                 delegateEntry(ServerClient, Val(agent).endpoint, DelegationIdOf(k), task,
                               ToolOptions(Val(agent)), elapsed)]
  /\ requests' =
       IF calls'[k].pc = "fetching"
       THEN SendRequest(requests,
                        [call |-> k, endpoint |-> Val(agent).endpoint,
                         headers |-> RequestHeaders(Val(agent).auth),
                         body |-> RequestBody(ServerClient, DelegationIdOf(k), task,
                                              ToolOptions(Val(agent)))])
       ELSE requests
  /\ routes' = [routes EXCEPT ![k] =
                  [pc |-> "awaiting", via |-> "mcp",
                   body |-> Some([NoBody EXCEPT !.task = Some(task),
                                                !.targetName = Some(targetName)]),
                   status |-> 0]]

\* the mesh_delegate tool, up to await delegationClient.delegate(...)
MeshDelegate(k, targetName, task, elapsed) ==
  /\ routes[k].pc = "idle"
  /\ \A j \in 1..(k - 1) : routes[j].pc # "idle"
  /\ \/ ToolRefuses(k, targetName, task)
     \/ ToolDispatches(k, targetName, task, get(agents, targetName), elapsed)
  /\ UNCHANGED <<deliveries, lastWrite, lastResponse, matchVars, registryVars>>

\* the mesh_delegate tool, after delegate has returned: the outcome is
\* recorded and returned as text (status 0); the handler throws when the
\* update throws (status 500)
MeshDelegateDone(k) ==
  /\ routes[k].pc = "awaiting"
  /\ routes[k].via = "mcp"
  /\ calls[k].pc = "returned"
  /\ delegations' = updateDelegation(delegations, DelegationIdOf(k),
                                     OutcomeUpdate(Val(calls[k].outcome)))
  /\ routes' = [routes EXCEPT ![k].pc = "responded",
                              ![k].status = IF UpdateBinds(OutcomeUpdate(Val(calls[k].outcome)))
                                            THEN 0 ELSE 500]
  /\ UNCHANGED <<clientVars, deliveries, lastWrite, lastResponse, matchVars, registryVars>>

\* POST /v1/delegations/:id/result, up to await c.req.json()
CallbackReceived(h, id) ==
  /\ deliveries[h].pc = "idle"
  /\ \A j \in 1..(h - 1) : deliveries[j].pc # "idle"
  /\ deliveries' =
       [deliveries EXCEPT ![h] =
          [pc |-> IF CallbackCheck(getDelegation(delegations, id)) = 0
                  THEN "reading" ELSE "responded",
           id |-> id, found |-> getDelegation(delegations, id), body |-> Undefined,
           status |-> CallbackCheck(getDelegation(delegations, id))]]
  /\ UNCHANGED <<delegations, routes, lastWrite, lastResponse, clientVars, matchVars, registryVars>>

\* POST /v1/delegations/:id/result, after the body was read
CallbackBody(h, text) ==
  /\ deliveries[h].pc = "reading"
  /\ delegations' = CallbackApply(delegations, deliveries[h].id, JSONParse(text))
  /\ deliveries' = [deliveries EXCEPT ![h].pc = "responded", ![h].body = Some(text),
                                      ![h].status = CallbackStatus(JSONParse(text))]
  /\ UNCHANGED <<routes, lastWrite, lastResponse, clientVars, matchVars, registryVars>>

NextServer ==
  \/ \E k \in CallIds, body \in RouteBodies, t \in Elapsed : PostDelegate(k, body, t)
  \/ \E k \in CallIds : PostDelegateDone(k)
  \/ \E k \in CallIds, n \in ToolTargets, t \in Elapsed : MeshDelegate(k, n, TheTask, t)
  \/ \E k \in CallIds : MeshDelegateDone(k)
  \/ \E h \in DeliveryIds, id \in CallbackIds : CallbackReceived(h, id)
  \/ \E h \in DeliveryIds, text \in CallbackBodies : CallbackBody(h, text)
  \/ \E c \in CallIds, t \in Elapsed : FetchFails(c, t)
  \/ \E c \in CallIds : TimerFires(c)
  \/ \E c \in CallIds, s \in Statuses, b \in AgentBodies, t \in Elapsed : Respond(c, s, b, t)
  \/ \E c \in CallIds : BodyRead(c)
  \/ \E c \in CallIds : ReadFails(c)

SpecServer == InitServer /\ [][NextServer]_vars

(***************************************************************************)
(* The ledger called directly: logDelegation and updateDelegation applied  *)
(* to the delegations table, any number of times with any of the inputs.   *)
(***************************************************************************)
MaxWrites == 3

LedgerIds == {DelegationIdOf(1), DelegationIdOf(2)}

LedgerRecords ==
  { [id |-> i, source_agent |-> <<"a", "p", "i">>, target_agent |-> A_one, task |-> TheTask,
     status |-> st, result |-> Undefined, error |-> Undefined, latency_ms |-> Undefined] :
      i \in LedgerIds, st \in {"pending", "running"} }

LedgerUpdates ==
  { [status |-> st, result |-> r, error |-> e, latency_ms |-> Undefined] :
      st \in {"running", "completed", "failed"},
      r \in {Undefined, Some(<<"r">>), Some(JTrue)},
      e \in {Undefined, Some(<<"e">>)} }

\* the number of direct calls made so far
Writes == IF IsSome(lastWrite) THEN Val(lastWrite).n ELSE 0

InitLedger ==
  /\ IdleServer
  /\ IdleClient
  /\ IdleMatch
  /\ IdleRegistry

\* registry.logDelegation(record)
LogDelegation(record) ==
  /\ Writes < MaxWrites
  /\ delegations' = logDelegation(delegations, record)
  /\ lastWrite' = Some([n |-> Writes + 1, op |-> "logDelegation", data |-> record,
                        threw |-> LogThrows(delegations, record)])
  /\ UNCHANGED <<routes, deliveries, lastResponse, clientVars, matchVars, registryVars>>

\* registry.updateDelegation(id, update)
UpdateDelegation(id, update) ==
  /\ Writes < MaxWrites
  /\ delegations' = updateDelegation(delegations, id, update)
  /\ lastWrite' = Some([n |-> Writes + 1, op |-> "updateDelegation",
                        data |-> [id |-> id, update |-> update],
                        threw |-> ~UpdateBinds(update),
                        returned |-> id \in DOMAIN delegations])
  /\ UNCHANGED <<routes, deliveries, lastResponse, clientVars, matchVars, registryVars>>

NextLedger ==
  \/ \E record \in LedgerRecords : LogDelegation(record)
  \/ \E id \in LedgerIds, update \in LedgerUpdates : UpdateDelegation(id, update)

SpecLedger == InitLedger /\ [][NextLedger]_vars

(***************************************************************************)
(* The ledger next to the agents table: the direct writes of the ledger    *)
(* and unregister, on a registry that holds the server's agents.           *)
(***************************************************************************)
InitLedgerRegistry ==
  /\ IdleServer
  /\ IdleClient
  /\ IdleMatch
  /\ agents = ServerAgents
  /\ lastRegister = Undefined
  /\ lastDiscover = Undefined
  /\ loreCall = IdleLore

NextLedgerRegistry ==
  \/ \E record \in LedgerRecords : LogDelegation(record)
  \/ \E id \in LedgerIds, update \in LedgerUpdates : UpdateDelegation(id, update)
  \/ \E name \in DOMAIN ServerAgents : Unregister(name)

SpecLedgerRegistry == InitLedgerRegistry /\ [][NextLedgerRegistry]_vars

(***************************************************************************)
(* The routes and the tool that answer with agents, on a registry that     *)
(* register fills: GET /v1/agents, GET /v1/agents/:name, GET /v1/discover  *)
(* and mesh_discover.                                                      *)
(***************************************************************************)
ReadRequirements == {Undefined, Some(<<[uri |-> U_file_h1_a_ab]>>)}

\* the request is answered: lastResponse holds the route and its answer
Answered(via, response) ==
  /\ lastRegister = Undefined
  /\ lastResponse = Undefined
  /\ lastResponse' = Some([via |-> via, status |-> response.status,
                           agents |-> response.agents])
  /\ UNCHANGED <<agents, lastRegister, lastDiscover, loreCall, delegations, routes,
                 deliveries, lastWrite, matchVars, clientVars>>

ReadAgents == Answered("GET /v1/agents", GetAgents(agents))

ReadAgent(name) == Answered("GET /v1/agents/:name", GetAgent(agents, name))

ReadDiscover(query, limit, requiredResources) ==
  Answered("GET /v1/discover", GetDiscover(agents, query, limit, requiredResources))

ToolDiscover(query, limit) == Answered("mesh_discover", MeshDiscover(agents, query, limit))

\* the caller has taken the answer
AnswerTaken ==
  /\ lastResponse # Undefined
  /\ lastResponse' = Undefined
  /\ UNCHANGED <<agents, lastRegister, lastDiscover, loreCall, delegations, routes,
                 deliveries, lastWrite, matchVars, clientVars>>

NextRead ==
  \/ \E input \in RegisterInputs : lastResponse = Undefined /\ Register(input)
  \/ RegisterReturned
  \/ AnswerTaken
  \/ ReadAgents
  \/ \E name \in AgentNames : ReadAgent(name)
  \/ \E q \in Queries, l \in Limits, rr \in ReadRequirements : ReadDiscover(q, l, rr)
  \/ \E q \in Queries, l \in Limits : ToolDiscover(q, l)

SpecRead == InitDiscover /\ [][NextRead]_vars

(***************************************************************************)
(* Properties of the matcher, under SpecMatch                              *)
(***************************************************************************)

GrantParsed == NewURL(matchCall.agentUri)
RequiredParsed == NewURL(matchCall.requiredUri)
BothParse == GrantParsed.ok /\ RequiredParsed.ok
SameOrigin ==
  /\ GrantParsed.protocol = RequiredParsed.protocol
  /\ GrantParsed.host = RequiredParsed.host

\* C7: when grant and requirement both parse as URLs and their schemes or
\* their host:port differ, uriMatches returns false whatever the paths, and
\* discover does not return the agent holding that grant for the requirement.
C7_NoCrossOriginCoverage ==
  (matchCall.done /\ BothParse /\ ~SameOrigin)
    => (matchCall.returned = FALSE /\ matchCall.discovered = <<>>)

\* C7 witness: a grant on another host whose path alone would cover the
\* requirement's path (a glob grant with a nested requirement) was refused.
C7_Witness ==
  /\ matchCall.done /\ BothParse
  /\ GrantParsed.protocol = RequiredParsed.protocol
  /\ GrantParsed.host # RequiredParsed.host
  /\ EndsWith(GrantParsed.pathname, <<"/", "*">>)
  /\ Len(RequiredParsed.pathname) > Len(GrantParsed.pathname)
  /\ pathMatches(GrantParsed.pathname, RequiredParsed.pathname)
  /\ matchCall.returned = FALSE
  /\ matchCall.discovered = <<>>

\* the strings the path rules compare: the pathnames when both arguments
\* parse, the raw strings otherwise
GrantPath == IF BothParse THEN GrantParsed.pathname ELSE matchCall.agentUri
RequiredPath == IF BothParse THEN RequiredParsed.pathname ELSE matchCall.requiredUri

\* the grant's path followed by the separator (a path that already ends with
\* the separator carries it)
WithSeparator(path) == IF EndsWith(path, <<"/">>) THEN path ELSE path \o <<"/">>

\* C8: a non-glob grant covers a requirement with a different path only when
\* the requirement's path starts with the grant's path followed by "/" (so
\* /a covers /a/ab and not /ab), for the pathnames of parsed URLs and for raw
\* strings alike.
C8_ParentCoversChildAtSeparator ==
  (/\ matchCall.done
   /\ matchCall.returned = TRUE
   /\ ~EndsWith(GrantPath, <<"/", "*">>)
   /\ GrantPath # RequiredPath)
    => StartsWith(RequiredPath, WithSeparator(GrantPath))

\* C9: a glob grant P/* covers every requirement of the same scheme and host
\* whose path starts with P/, at any depth below P.
C9_GlobCoversDescendants ==
  (/\ matchCall.done /\ BothParse /\ SameOrigin
   /\ EndsWith(GrantParsed.pathname, <<"/", "*">>)
   /\ StartsWith(RequiredParsed.pathname, DropLast(GrantParsed.pathname)))
    => (matchCall.returned = TRUE /\ Len(matchCall.discovered) = 1)

\* C9 witness: scheme://host/a/* covered a requirement two levels below /a/.
C9_Witness ==
  /\ matchCall.done /\ BothParse /\ SameOrigin
  /\ GrantParsed.pathname = <<"/", "a", "/", "*">>
  /\ RequiredParsed.pathname = <<"/", "a", "/", "a", "b", "/", "a">>
  /\ GrantParsed.host[1] = <<"h", "1">>
  /\ matchCall.returned = TRUE

\* the requirement's path is a proper ancestor of the grant's path: the
\* grant's path goes on below it, after the separator
RequirementAboveGrant ==
  /\ BothParse /\ SameOrigin
  /\ GrantParsed.pathname # RequiredParsed.pathname
  /\ StartsWith(GrantParsed.pathname, WithSeparator(RequiredParsed.pathname))

HostOnlyGrant == BothParse /\ GrantParsed.pathname \in {<<>>, <<"/">>}

\* C28: a grant of scheme and host only (no path, or the root path /) covers
\* every requirement on the same scheme and host:port whatever its path:
\* uriMatches returns true and discover returns the agent holding the grant.
C28_HostGrantCoversEveryPath ==
  (matchCall.done /\ HostOnlyGrant /\ SameOrigin)
    => (matchCall.returned = TRUE /\ Len(matchCall.discovered) = 1)

(***************************************************************************)
(* Properties of discover, under SpecDiscover                              *)
(***************************************************************************)

\* some grant of the agent covers the requirement
Covered(agent, req) ==
  \E j \in 1..Len(agent.resources) : uriMatches(agent.resources[j].uri, req.uri)

\* the call of discover named a non-empty requirement list
CalledWithRequirements ==
  /\ lastDiscover # Undefined
  /\ IsSome(Val(lastDiscover).requiredResources)
  /\ Len(Val(Val(lastDiscover).requiredResources)) > 0

\* C10: with a non-empty requirement list, discover returns an agent only if
\* every requirement is covered by at least one of the agent's grants.
C10_OnlyAgentsCoveringEveryRequirement ==
  CalledWithRequirements =>
    LET call == Val(lastDiscover)
        reqs == Val(call.requiredResources)
    IN  \A i \in 1..Len(call.results) :
          \A k \in 1..Len(reqs) : Covered(call.results[i].agent, reqs[k])

\* C10 witness: an agent matching every query token and covering the first of
\* two requirements but not the second was left out, while another agent
\* covering both was returned.
C10_Witness ==
  /\ CalledWithRequirements
  /\ LET call == Val(lastDiscover)
         reqs == Val(call.requiredResources)
         tokens == tokenize(call.query)
     IN  /\ Len(reqs) = 2
         /\ Len(call.results) = 1
         /\ \E i \in 1..Len(call.listed) :
              /\ Len(MatchedCapabilities(call.listed[i], tokens)) = Len(tokens)
              /\ Covered(call.listed[i], reqs[1])
              /\ ~Covered(call.listed[i], reqs[2])
              /\ call.results[1].agent # call.listed[i]

\* a call of discover has just returned
\* a call of register is returning
Registered == lastRegister # Undefined
RegisterInput == Val(lastRegister).input

\* the registry lists every name once
OneRecordPerName ==
  \A i, j \in 1..Len(list(agents)) :
    list(agents)[i].name = list(agents)[j].name => i = j

\* the record of the name just registered holds the values of the input
RecordHoldsInput ==
  Registered =>
    /\ IsSome(get(agents, RegisterInput.name))
    /\ Val(get(agents, RegisterInput.name)).description = RegisterInput.description
    /\ Val(get(agents, RegisterInput.name)).capabilities = RegisterInput.capabilities
    /\ Val(get(agents, RegisterInput.name)).resources = RegisterInput.resources
    /\ Val(get(agents, RegisterInput.name)).endpoint = RegisterInput.endpoint
    /\ Val(get(agents, RegisterInput.name)).protocol = RegisterInput.protocol
    /\ Val(get(agents, RegisterInput.name)).auth = RegisterInput.auth

\* the step of a call of register adds at most the name of its input and
\* leaves the records of the other names as they are
RegisterTouchesOneName ==
  (lastRegister = Undefined /\ lastRegister' # Undefined)
    => /\ DOMAIN agents' = DOMAIN agents \cup {Val(lastRegister').input.name}
       /\ \A n \in DOMAIN agents \ {Val(lastRegister').input.name} : agents'[n] = agents[n]

\* C23: after any sequence of register and unregister calls the registry
\* holds at most one record per agent name; registering a name that is
\* already there replaces its description, capabilities, resources,
\* endpoint, protocol and auth with the new values and adds no record.
C23_RegisterReplacesByName ==
  /\ []OneRecordPerName
  /\ []RecordHoldsInput
  /\ [][RegisterTouchesOneName]_vars

\* a name was registered again with another description, endpoint,
\* protocol and auth, and the registry lists it once with the new values
C23_Witness ==
  /\ Registered
  /\ IsSome(Val(lastRegister).found)
  /\ Val(Val(lastRegister).found).description # RegisterInput.description
  /\ Val(Val(lastRegister).found).capabilities # RegisterInput.capabilities
  /\ Val(Val(lastRegister).found).endpoint # RegisterInput.endpoint
  /\ Val(Val(lastRegister).found).protocol # RegisterInput.protocol
  /\ Val(Val(lastRegister).found).auth # RegisterInput.auth
  /\ Val(lastRegister).returned = get(agents, RegisterInput.name)
  /\ Val(get(agents, RegisterInput.name)).endpoint = RegisterInput.endpoint
  /\ Len(list(agents)) = Cardinality(DOMAIN agents)

Called == lastDiscover # Undefined
LastCall == Val(lastDiscover)

\* some query token occurs in the agent's lower-cased description and
\* capabilities
SomeTokenOccurs(agent, tokens) ==
  \E k \in 1..Len(tokens) : Includes(SearchText(agent), tokens[k])

\* C11: every agent discover returns has at least one query token occurring
\* as a substring of its lower-cased description-plus-capabilities text, and
\* when no listed agent has one the result is the empty list.
C11_OnlyAgentsMatchingSomeToken ==
  Called =>
    /\ \A i \in 1..Len(LastCall.results) :
         SomeTokenOccurs(LastCall.results[i].agent, tokenize(LastCall.query))
    /\ (\A j \in 1..Len(LastCall.listed) :
          ~SomeTokenOccurs(LastCall.listed[j], tokenize(LastCall.query)))
         => LastCall.results = <<>>

\* C11 witness: of two listed agents, the one with a query token in its text
\* was returned and the one without was left out.
C11_Witness ==
  /\ Called
  /\ Len(tokenize(LastCall.query)) > 0
  /\ Len(LastCall.listed) = 2
  /\ Len(LastCall.results) = 1
  /\ \E j \in 1..2 :
       /\ ~SomeTokenOccurs(LastCall.listed[j], tokenize(LastCall.query))
       /\ LastCall.results[1].agent = LastCall.listed[3 - j]

\* C12: every score discover returns is greater than 0 and at most 1, with
\* or without the resource boost, and no entry has more matched tokens than
\* the query has tokens (also when the query repeats a token).
C12_ScoreWithinUnitInterval ==
  Called =>
    \A i \in 1..Len(LastCall.results) :
      /\ LastCall.results[i].score.den > 0
      /\ LastCall.results[i].score.num > 0
      /\ LastCall.results[i].score.num <= LastCall.results[i].score.den
      /\ Len(LastCall.results[i].matchedCapabilities) <= Len(tokenize(LastCall.query))

\* C12 witness: the query repeats a token, the agent matches both
\* occurrences and covers the requirement, and its boosted score is 1.
C12_Witness ==
  /\ CalledWithRequirements
  /\ tokenize(LastCall.query) = <<<<"a", "b">>, <<"a", "b">>>>
  /\ \E i \in 1..Len(LastCall.results) :
       /\ Len(LastCall.results[i].matchedCapabilities) = 2
       /\ Len(LastCall.results[i].matchedResources) > 0
       /\ LastCall.results[i].score.num = LastCall.results[i].score.den

\* the position of an agent in the candidate list
PositionIn(listed, agent) == CHOOSE j \in 1..Len(listed) : listed[j] = agent

\* a.score >= b.score and a.score = b.score, by cross-multiplication
ScoreAtLeast(a, b) == a.num * b.den >= b.num * a.den
ScoreEqual(a, b) == a.num * b.den = b.num * a.den

\* C13: the result is ordered by non-increasing score, entries of equal
\* score are in the order of the candidate list, and the candidate list is
\* in ascending order of agent name.
C13_SortedByScoreStable ==
  Called =>
    /\ \A i, j \in 1..Len(LastCall.results) :
         i < j =>
           /\ ScoreAtLeast(LastCall.results[i].score, LastCall.results[j].score)
           /\ ScoreEqual(LastCall.results[i].score, LastCall.results[j].score)
                => PositionIn(LastCall.listed, LastCall.results[i].agent)
                     < PositionIn(LastCall.listed, LastCall.results[j].agent)
    /\ \A i, j \in 1..Len(LastCall.listed) :
         i < j => StrLess(LastCall.listed[i].name, LastCall.listed[j].name)

\* C13 witness: two agents of equal score were returned, in list order.
C13_Witness ==
  /\ Called
  /\ Len(LastCall.results) = 2
  /\ ScoreEqual(LastCall.results[1].score, LastCall.results[2].score)
  /\ LastCall.results[1].agent.description # LastCall.results[2].agent.description
  /\ LastCall.results[1].agent = LastCall.listed[1]

\* the ranking discover returns for the same call without a limit
Unlimited ==
  discover(LastCall.query, LastCall.listed, Undefined, LastCall.requiredResources)

\* C14: with a limit >= 0, discover returns exactly the first min(limit, n)
\* entries of the ranking it returns without a limit, n being the length of
\* that ranking; so it never returns more than limit entries.
C14_LimitTruncatesRanking ==
  (Called /\ IsSome(LastCall.limit) /\ Val(LastCall.limit) >= 0) =>
    /\ Len(LastCall.results) <= Val(LastCall.limit)
    /\ LastCall.results =
         SubSeq(Unlimited, 1,
                IF Val(LastCall.limit) < Len(Unlimited)
                THEN Val(LastCall.limit) ELSE Len(Unlimited))

\* the query has no word character: it is empty, or made of whitespace and
\* non-word characters only
NoWordChars(query) == \A i \in 1..Len(query) : query[i] \notin WordChars

\* C15: a query without any token makes discover return the empty list,
\* whatever the candidates, the limit and the requirements.
C15_EmptyTokenSetGivesEmptyResult ==
  (Called /\ NoWordChars(LastCall.query)) => LastCall.results = <<>>

\* C15 witness: a query of a blank and a hyphen, on a registry with an agent,
\* with a requirement, returned the empty list.
C15_Witness ==
  /\ CalledWithRequirements
  /\ LastCall.query # <<>>
  /\ NoWordChars(LastCall.query)
  /\ Len(LastCall.listed) > 0
  /\ LastCall.results = <<>>

\* the step in which discover runs writes neither the agents table nor the
\* ledger
DiscoverWritesNothing ==
  (lastDiscover = Undefined /\ lastDiscover' # Undefined)
    => (agents' = agents /\ delegations' = delegations)

\* the result in hand is the one a second call with the same arguments gets
\* from the registry as it is now
SameResultAgain ==
  Called =>
    LastCall.results = discover(LastCall.query, list(agents), LastCall.limit,
                                LastCall.requiredResources)

\* the call named one requirement, and it does not parse as a URL
OneRawRequirement ==
  /\ CalledWithRequirements
  /\ Len(Val(LastCall.requiredResources)) = 1
  /\ ~NewURL(Val(LastCall.requiredResources)[1].uri).ok

\* some grant of the agent covers the raw string uri by the string rules
CoveredAsString(agent, uri) ==
  \E j \in 1..Len(agent.resources) :
    \/ agent.resources[j].uri = uri
    \/ stringPrefixMatch(agent.resources[j].uri, uri)

\* with a limit that cuts nothing, a requirement that is not a URL selects
\* the agents matching a token that cover it as a raw string
RawRequirementMatchedAsString ==
  (OneRawRequirement /\ ~IsSome(LastCall.limit)) =>
    \A j \in 1..Len(LastCall.listed) :
      (\E i \in 1..Len(LastCall.results) : LastCall.results[i].agent = LastCall.listed[j])
        <=> /\ SomeTokenOccurs(LastCall.listed[j], tokenize(LastCall.query))
            /\ CoveredAsString(LastCall.listed[j], Val(LastCall.requiredResources)[1].uri)

Returned(c) == calls[c].pc = "returned"
Invoked(c) == calls[c].pc # "idle"
OutcomeOf(c) == Val(calls[c].outcome)

\* the number of requests fetch has sent for call c
RequestsOf(c) == Cardinality({i \in 1..Len(requests) : requests[i].call = c})

\* the call was refused by the depth guard: failed, a depth-exceeded
\* message, zero latency, nothing sent
RefusedForDepth(c) ==
  /\ Returned(c)
  /\ OutcomeOf(c).status = "failed"
  /\ OutcomeOf(c).success = FALSE
  /\ IsSome(OutcomeOf(c).error)
  /\ Includes(Val(OutcomeOf(c).error), <<"d", "e", "p", "t", "h">>)
  /\ OutcomeOf(c).latencyMs = 0
  /\ RequestsOf(c) = 0

\* C1 as stated: a call whose context.depth is at or above MAX_DEPTH is
\* refused by the depth guard whatever the endpoint: status failed,
\* success = false, a depth-exceeded error, latencyMs = 0, no request sent.
C1_DepthAtOrAboveCeilingRefused ==
  \A c \in CallIds : (Invoked(c) /\ DepthOf(calls[c].opts) >= MAX_DEPTH) => RefusedForDepth(c)

\* C1 amended: a call whose context.depth is strictly above MAX_DEPTH is
\* refused by the depth guard whatever the endpoint (status failed,
\* success = false, a depth-exceeded error, latencyMs = 0, no request sent);
\* a call at depth MAX_DEPTH exactly is not refused by the guard.
C1_DepthAboveCeilingRefused ==
  \A c \in CallIds :
    /\ (Invoked(c) /\ DepthOf(calls[c].opts) > MAX_DEPTH) => RefusedForDepth(c)
    /\ (Invoked(c) /\ DepthOf(calls[c].opts) = MAX_DEPTH /\ FetchAccepts(calls[c].endpoint))
         => RequestsOf(c) = 1

C1_Witness ==
  \E c \in CallIds :
    /\ Returned(c)
    /\ DepthOf(calls[c].opts) > MAX_DEPTH
    /\ calls[c].endpoint = E_agent
    /\ OutcomeOf(c).latencyMs = 0

\* the fetch of call c was rejected by the deadline before any response
DeadlineBeforeResponse(c) ==
  Returned(c) /\ calls[c].error = Some(ErrTimeout) /\ ~IsSome(calls[c].response)

\* the endpoint of call c answered with a status outside 200..299
AnsweredNon2xx(c) ==
  Returned(c) /\ IsSome(calls[c].response) /\ ~ResponseOk(Val(calls[c].response).status)

\* C3: a call that gets no response before the deadline returns status
\* timeout with success = false (never failed); a call answered with a
\* non-2xx status returns status failed with the decimal status in the error
\* text (never timeout).
C3_TimeoutDistinctFromFailure ==
  \A c \in CallIds :
    /\ DeadlineBeforeResponse(c)
         => (OutcomeOf(c).status = "timeout" /\ OutcomeOf(c).success = FALSE)
    /\ AnsweredNon2xx(c)
         => /\ OutcomeOf(c).status = "failed"
            /\ OutcomeOf(c).success = FALSE
            /\ IsSome(OutcomeOf(c).error)
            /\ Includes(Val(OutcomeOf(c).error), ToDecimal(Val(calls[c].response).status))

C3_Witness ==
  \E c \in CallIds :
    /\ DeadlineBeforeResponse(c)
    /\ RequestsOf(c) = 1
    /\ OutcomeOf(c).status = "timeout"
    /\ OutcomeOf(c).latencyMs > 0

\* C4: a call answered with 202 returns status accepted and success = true,
\* and its outcome has no result field.
C4_AcceptedCarriesNoResult ==
  \A c \in CallIds :
    (Returned(c) /\ IsSome(calls[c].response) /\ Val(calls[c].response).status = 202)
      => /\ OutcomeOf(c).status = "accepted"
         /\ OutcomeOf(c).success = TRUE
         /\ ~IsSome(OutcomeOf(c).result)

TerminalStatuses == {"completed", "accepted", "failed", "timeout"}

\* a call has an outcome exactly when it has returned, and at most one
\* request has been sent for it
OneOutcomeOneRequest ==
  \A c \in CallIds :
    /\ RequestsOf(c) <= 1
    /\ Returned(c) <=> IsSome(calls[c].outcome)
    /\ Returned(c) => OutcomeOf(c).status \in TerminalStatuses

\* once a call has returned, neither its outcome nor the requests change
ReturnedIsFinal ==
  \A c \in CallIds : Returned(c) => (calls'[c] = calls[c] /\ RequestsOf(c)' = RequestsOf(c))

\* C5: every invocation of delegate ends in exactly one of completed,
\* accepted, failed, timeout, eventually returns that outcome, which never
\* changes afterwards, and sends at most one request.
C5_OneOutcomeOneRequest ==
  /\ []OneOutcomeOneRequest
  /\ [][ReturnedIsFinal]_vars
  /\ \A c \in CallIds : Invoked(c) ~> Returned(c)

C5_Witness ==
  \E c \in CallIds :
    /\ Returned(c)
    /\ RequestsOf(c) = 1
    /\ OutcomeOf(c).status = "failed"
    /\ calls[c].error = Some(ErrFetchFailed)

\* a transport-level failure happened during call c: fetch was rejected for
\* another reason than the deadline, JSON.stringify threw, or the read of
\* the response body was aborted by the connection (not by the deadline)
TransportFailed(c) ==
  \/ IsSome(calls[c].error) /\ Val(calls[c].error).name # "TimeoutError"
  \/ calls[c].readFailed /\ ~calls[c].timerFired

\* C6: every call during which a transport-level failure happened returns
\* an outcome with status failed, success = false and a non-empty error.
C6_TransportFailuresReturnFailed ==
  \A c \in CallIds :
    (Returned(c) /\ TransportFailed(c))
      => /\ OutcomeOf(c).status = "failed"
         /\ OutcomeOf(c).success = FALSE
         /\ IsSome(OutcomeOf(c).error)
         /\ Val(OutcomeOf(c).error) # <<>>

\* the context the caller of call c passed (Undefined when none)
CallerContext(c) ==
  IF IsSome(calls[c].opts) THEN Val(calls[c].opts).context ELSE Undefined

\* the depth the caller of call c passed, 0 when it passed none
CallerDepth(c) ==
  IF IsSome(CallerContext(c)) /\ IsSome(Val(CallerContext(c)).depth)
  THEN Val(Val(CallerContext(c)).depth) ELSE 0

\* the value of the caller's other key (Undefined when the key is absent)
CallerExtra(c) ==
  IF IsSome(CallerContext(c)) THEN Val(CallerContext(c)).extra ELSE Undefined

\* every request sent carries the caller's depth plus one and the caller's
\* other key as the caller gave it
SentContextIsNextHop ==
  \A i \in 1..Len(requests) :
    /\ requests[i].body.context.depth = Some(CallerDepth(requests[i].call) + 1)
    /\ requests[i].body.context.extra = CallerExtra(requests[i].call)

\* the options a call was invoked with are those the caller passed, and they
\* stay as they are for the rest of the call
CallerOptionsKept ==
  \A c \in CallIds :
    /\ Invoked(c)' => calls'[c].opts \in OptionInputs
    /\ Invoked(c) => calls'[c].opts = calls[c].opts

\* C17: the request carries context.depth = the caller's depth (0 when
\* absent) + 1 and the caller's other context key unchanged, and the
\* caller's own context is left as it was.
C17_PayloadDepthIsCallerDepthPlusOne ==
  /\ []SentContextIsNextHop
  /\ [][CallerOptionsKept]_vars

\* C17 witness: a request was sent for a caller context with depth
\* MAX_DEPTH - 1 and another key; it carries depth MAX_DEPTH and that key.
C17_Witness ==
  \E i \in 1..Len(requests) :
    /\ CallerDepth(requests[i].call) = MAX_DEPTH - 1
    /\ CallerExtra(requests[i].call) = Some(ExtraValue)
    /\ requests[i].body.context.depth = Some(MAX_DEPTH)
    /\ requests[i].body.context.extra = Some(ExtraValue)

\* the async option of the caller of call c is true
CallerAsync(c) ==
  /\ IsSome(calls[c].opts)
  /\ Val(calls[c].opts).async = Some(TRUE)

\* <meshBaseUrl>/v1/delegations/<id>/result for the client of the calls,
\* whose base URL is http://m
ExpectedCallbackUrl(id) ==
  <<"h", "t", "t", "p", ":", "/", "/", "m", "/", "v", "1", "/", "d", "e", "l", "e", "g", "a", "t", "i", "o", "n", "s", "/">> \o id \o <<"/", "r", "e", "s", "u", "l", "t">>

\* C18: a request carries callbackUrl if and only if the caller's async
\* option is true, and then it is <meshBaseUrl>/v1/delegations/<id>/result
\* with the delegationId of that call.
C18_CallbackUrlOnlyForAsync ==
  \A i \in 1..Len(requests) :
    /\ IsSome(requests[i].body.callbackUrl) <=> CallerAsync(requests[i].call)
    /\ CallerAsync(requests[i].call)
         => /\ requests[i].body.delegationId = DelegationIdOf(requests[i].call)
            /\ requests[i].body.callbackUrl
                 = Some(ExpectedCallbackUrl(DelegationIdOf(requests[i].call)))

\* C18 witness: a request of a call with async true was sent with its
\* callback address.
C18_Witness ==
  \E i \in 1..Len(requests) :
    /\ CallerAsync(requests[i].call)
    /\ IsSome(requests[i].body.callbackUrl)
    /\ Len(Val(requests[i].body.callbackUrl)) > Len(DelegationIdOf(requests[i].call))

\* the auth descriptor the caller of call c passed (Undefined when none)
CallerAuth(c) == IF IsSome(calls[c].opts) THEN Val(calls[c].opts).auth ELSE Undefined

\* the names of the headers that carry a credential
CredentialHeaders(headers) == DOMAIN headers \ {H_ContentType}

\* C19: a request carries Authorization: Bearer <token> for an auth
\* descriptor of type bearer, <headerName>: <token> for one of type header,
\* and no credential header when the descriptor is absent or of type none.
C19_CredentialAttachedByAuthType ==
  \A i \in 1..Len(requests) :
    LET auth == CallerAuth(requests[i].call)
        headers == requests[i].headers
    IN  /\ (IsSome(auth) /\ Val(auth).type = "bearer" /\ Truthy(Val(auth).token))
             => /\ CredentialHeaders(headers) = {<<"A", "u", "t", "h", "o", "r", "i", "z", "a", "t", "i", "o", "n">>}
                /\ headers[<<"A", "u", "t", "h", "o", "r", "i", "z", "a", "t", "i", "o", "n">>] = <<"B", "e", "a", "r", "e", "r", " ">> \o Val(Val(auth).token)
        /\ (/\ IsSome(auth)
            /\ Val(auth).type = "header"
            /\ Truthy(Val(auth).headerName)
            /\ Truthy(Val(auth).token))
             => /\ CredentialHeaders(headers) = {Val(Val(auth).headerName)}
                /\ headers[Val(Val(auth).headerName)] = Val(Val(auth).token)
        /\ (~IsSome(auth) \/ Val(auth).type = "none")
             => CredentialHeaders(headers) = {}

\* C19 witness: a request was sent for a call with a bearer credential and
\* carries it in Authorization.
C19_Witness ==
  \E i \in 1..Len(requests) :
    /\ CallerAuth(requests[i].call) = Some(AuthBearer)
    /\ requests[i].headers[H_Authorization] = <<"B", "e", "a", "r", "e", "r", " ", "s">>

(***************************************************************************)
(* Properties of the callback route, under SpecServer                      *)
(***************************************************************************)
Finalized(found) == IsSome(found) /\ Val(found).status \in {"completed", "failed"}

\* a delivery that found its entry completed or failed was answered 409
\* and is not reading a body
FinalizedAnswered409 ==
  \A h \in DeliveryIds :
    Finalized(deliveries[h].found)
      => (deliveries[h].pc = "responded" /\ deliveries[h].status = 409)

\* the step in which a delivery arrives for an entry that is completed or
\* failed answers 409 and writes nothing to the ledger
FinalizedLeftUnchanged ==
  \A h \in DeliveryIds :
    (/\ deliveries[h].pc = "idle"
     /\ deliveries'[h].pc # "idle"
     /\ Finalized(getDelegation(delegations, deliveries'[h].id)))
      => (deliveries'[h].status = 409 /\ delegations' = delegations)

DispatchLogsOneEntry ==
  \A k \in CallIds :
    (routes[k].pc = "idle" /\ routes'[k].pc = "awaiting")
      => /\ DelegationIdOf(k) \notin DOMAIN delegations
         /\ DOMAIN delegations' = DOMAIN delegations \cup {DelegationIdOf(k)}
         /\ delegations'[DelegationIdOf(k)].task = Val(Val(routes'[k].body).task)
         /\ delegations'[DelegationIdOf(k)].target_agent \in DOMAIN agents
         /\ Truthy(Val(routes'[k].body).targetName)
              => delegations'[DelegationIdOf(k)].target_agent
                   = Val(Val(routes'[k].body).targetName)

\* no other step adds an entry or removes one
OnlyDispatchLogs ==
  (\A k \in CallIds : ~(routes[k].pc = "idle" /\ routes'[k].pc = "awaiting"))
    => DOMAIN delegations' = DOMAIN delegations

\* every request that went out belongs to a delegation that is in the ledger
LoggedBeforeCall ==
  \A i \in 1..Len(requests) : DelegationIdOf(requests[i].call) \in DOMAIN delegations

\* the step in which the handler of request k finishes leaves the entry with
\* the status of the outcome delegate returned
FinishRecordsOutcome ==
  \A k \in CallIds :
    (routes[k].pc = "awaiting" /\ routes'[k].pc = "responded")
      => delegations'[DelegationIdOf(k)].status = Val(calls[k].outcome).status

\* the entry of a handler that has finished is neither pending nor running
NoneLeftRunning ==
  \A k \in CallIds :
    (routes[k].pc = "responded" /\ DelegationIdOf(k) \in DOMAIN delegations)
      => delegations[DelegationIdOf(k)].status \notin {"pending", "running"}

\* C20: every delegation dispatched by POST /v1/delegate or the
\* mesh_delegate tool creates exactly one
\* ledger entry (fresh id, the target and the task asked for) before the
\* request to the agent goes out; when the handler finishes, the status of
\* the entry is the status of the outcome; no entry is pending or running
\* once its handler has finished.
C20_LedgerFollowsDelegation ==
  /\ [][DispatchLogsOneEntry /\ OnlyDispatchLogs /\ FinishRecordsOutcome]_vars
  /\ []LoggedBeforeCall
  /\ []NoneLeftRunning

(***************************************************************************)
(* Properties of the ledger called directly, under SpecLedger              *)
(***************************************************************************)

\* this step applies, with the same id and the same data, the write that
\* the call before it applied without failing
SecondApplication ==
  /\ IsSome(lastWrite)
  /\ IsSome(lastWrite')
  /\ Val(lastWrite').n = Val(lastWrite).n + 1
  /\ ~Val(lastWrite).threw
  /\ Val(lastWrite').op = Val(lastWrite).op
  /\ Val(lastWrite').data = Val(lastWrite).data

\* the step leaves the same entries with the same status, result and error
SameEntries ==
  /\ DOMAIN delegations' = DOMAIN delegations
  /\ \A i \in DOMAIN delegations :
       /\ delegations'[i].status = delegations[i].status
       /\ delegations'[i].result = delegations[i].result
       /\ delegations'[i].error = delegations[i].error

\* C21: a ledger write (logDelegation, updateDelegation) applied a second
\* time with the same id and the same data does not fail and leaves the
\* ledger with the same single entry, status, result and error as after
\* the first application.
C21_LedgerWritesIdempotent ==
  [][SecondApplication => (SameEntries /\ ~Val(lastWrite').threw)]_vars

(***************************************************************************)
(* Properties of discovery through Lore, under SpecLore                    *)
(***************************************************************************)

\* a lesson as the LoreLesson interface declares it: id, title and content
\* are there
WellFormedLesson(item) ==
  IsSome(item) /\ IsSome(Val(item).id) /\ IsSome(Val(item).title) /\ IsSome(Val(item).content)

\* a body as the LoreSearchResponse interface declares it
WellFormedBody(data) ==
  /\ IsSome(data)
  /\ ~Val(data).null
  /\ IsSome(Val(data).lessons)
  /\ Val(Val(data).lessons).array
  /\ \A i \in 1..Len(Val(Val(data).lessons).items) :
       WellFormedLesson(Val(Val(data).lessons).items[i])

\* the remote call succeeded: a response with a success status and a
\* well-formed body
RemoteSucceeded(response) ==
  ~response.failed /\ ResponseOk(response.status) /\ WellFormedBody(response.data)

\* the results are the remote ranking: one entry per lesson, in order, named
\* by the lesson's title
IsRemoteRanking(results, items) ==
  /\ Len(results) = Len(items)
  /\ \A i \in 1..Len(items) : results[i].agent.name = Val(items[i]).title

\* C22: LoreDiscoveryEngine.discover always returns; when the remote call
\* fails at transport level, answers with a status that is no success or
\* answers with a malformed body, the result is what the local engine
\* returns for the same query, registry and limit; a successful well-formed
\* response yields the remote ranking.
C22_LoreFailureFallsBackToLocal ==
  loreCall.pc = "returned" =>
    IF RemoteSucceeded(Val(loreCall.response))
    THEN IsRemoteRanking(loreCall.results, Val(Val(Val(loreCall.response).data).lessons).items)
    ELSE loreCall.results = discover(loreCall.query, list(agents), loreCall.limit, Undefined)

\* the request names a target that is not in the registry
NamesUnknownTarget(body) ==
  Truthy(body.targetName) /\ Val(body.targetName) \notin DOMAIN agents

\* the request gives neither a target nor a query
NoTargetNoQuery(body) == ~Truthy(body.targetName) /\ ~Truthy(body.query)

\* the query of the request has no token that occurs in any agent
QueryMatchesNoAgent(body) ==
  /\ ~Truthy(body.targetName)
  /\ Truthy(body.query)
  /\ \A n \in DOMAIN agents : ~SomeTokenOccurs(agents[n], tokenize(Val(body.query)))

\* the named target has no grant that covers one of the required resources
TargetLacksResources(body) ==
  /\ Truthy(body.targetName)
  /\ Val(body.targetName) \in DOMAIN agents
  /\ IsSome(body.resources)
  /\ \E i \in 1..Len(Val(body.resources)) :
       \A j \in 1..Len(agents[Val(body.targetName)].resources) :
         ~uriMatches(agents[Val(body.targetName)].resources[j].uri, Val(body.resources)[i].uri)

\* the request is one of those to be rejected before dispatch; the tool
\* takes a target and a task and rejects an unknown target
RejectionCase(route) ==
  IF route.via = "mcp" THEN NamesUnknownTarget(Val(route.body))
  ELSE \/ ~IsSome(route.body)
       \/ ~Truthy(Val(route.body).task)
       \/ NamesUnknownTarget(Val(route.body))
       \/ NoTargetNoQuery(Val(route.body))
       \/ QueryMatchesNoAgent(Val(route.body))
       \/ TargetLacksResources(Val(route.body))

\* a request of those kinds is answered in the step in which it arrives
RejectionCasesRefused ==
  \A k \in CallIds :
    (routes[k].pc = "idle" /\ routes'[k].pc # "idle" /\ RejectionCase(routes'[k]))
      => routes'[k].pc = "responded"

\* the step that answers a request without dispatching it leaves the
\* ledger, the calls of delegate and the requests sent as they are
RefusalWritesNothing ==
  \A k \in CallIds :
    (routes[k].pc = "idle" /\ routes'[k].pc = "responded")
      => (delegations' = delegations /\ requests' = requests /\ calls' = calls)

\* C24: a delegation request rejected before dispatch (unknown targetName,
\* missing task, neither targetName nor query, no agent matching the query,
\* a target lacking the required resources) creates no ledger entry,
\* changes no ledger entry and sends no request to an agent.
C24_RejectionLeavesNoTrace ==
  [][RejectionCasesRefused /\ RefusalWritesNothing]_vars

\* a request for a target that lacks the required resource was answered
\* 403 with the ledger empty and nothing sent
C24_Witness ==
  \E k \in CallIds :
    /\ routes[k].pc = "responded"
    /\ routes[k].status = 403
    /\ TargetLacksResources(Val(routes[k].body))
    /\ delegations = <<>>
    /\ requests = <<>>

(***************************************************************************)
(* Properties of concurrent calls of delegate, under SpecConcurrent        *)
(***************************************************************************)
\* every request sent is the one the arguments of its own call give: the
\* endpoint, the headers and the payload, depth included
RequestFromOwnArguments ==
  \A i \in 1..Len(requests) :
    /\ requests[i].endpoint = calls[requests[i].call].endpoint
    /\ requests[i].headers = RequestHeaders(OptAuth(calls[requests[i].call].opts))
    /\ requests[i].body.delegationId = DelegationIdOf(requests[i].call)
    /\ requests[i].body.task = TheTask
    /\ requests[i].body.context.depth = Some(CallerDepth(requests[i].call) + 1)
    /\ requests[i].body.context.extra = CallerExtra(requests[i].call)

\* two calls invoked with the same arguments whose endpoints answered alike
SameArguments(c, d) ==
  /\ calls[c].endpoint = calls[d].endpoint
  /\ calls[c].opts = calls[d].opts
SameAnswer(c, d) ==
  /\ calls[c].response = calls[d].response
  /\ calls[c].error = calls[d].error
  /\ calls[c].readFailed = calls[d].readFailed

\* the outcome of a call without the reading of the clock
Timeless(outcome) == [outcome EXCEPT !.latencyMs = 0]

\* such calls return the same outcome, whatever ran between their steps
SameCallSameOutcome ==
  \A c, d \in ConcurrentIds :
    (Returned(c) /\ Returned(d) /\ SameArguments(c, d) /\ SameAnswer(c, d))
      => Timeless(OutcomeOf(c)) = Timeless(OutcomeOf(d))

\* the depth guard and the deadline are the call's own: a call is refused
\* for depth exactly when its own depth is above the ceiling, and it times
\* out only when its own timer fired, with its own deadline in the message
GuardAndDeadlinePerCall ==
  \A c \in ConcurrentIds :
    Returned(c) =>
      /\ RefusedForDepth(c) <=> CallerDepth(c) > MAX_DEPTH
      /\ OutcomeOf(c).status = "timeout" =>
           /\ calls[c].timerFired
           /\ calls[c].timeout = TimeoutOf(TheClient, calls[c].opts)

\* a step belongs to one call: the other calls stay where they are, and
\* the requests already sent stay as they were sent
StepOfOneCall ==
  \E c \in ConcurrentIds :
    /\ \A d \in ConcurrentIds \ {c} : calls'[d] = calls[d]
    /\ \/ requests' = requests
       \/ /\ Len(requests') = Len(requests) + 1
          /\ SubSeq(requests', 1, Len(requests)) = requests
          /\ requests'[Len(requests')].call = c

\* C25: concurrent invocations of delegate on one client do not interfere:
\* the payload (depth included) and the outcome of each depend only on its
\* own arguments and on the answer of its own endpoint, and the depth guard
\* and the deadline are per call.
C25_ConcurrentCallsDoNotInterfere ==
  /\ [](RequestFromOwnArguments /\ SameCallSameOutcome /\ GuardAndDeadlinePerCall)
  /\ [][StepOfOneCall]_vars

\* C25 witness: two calls were invoked with the same arguments and both
\* requests, with depth 1, are out; the second call has returned completed
\* while the first is still waiting for its endpoint.
C25_Witness ==
  /\ calls[1].pc = "fetching"
  /\ Returned(2)
  /\ OutcomeOf(2).status = "completed"
  /\ SameArguments(1, 2)
  /\ Len(requests) = 2
  /\ \A i \in 1..2 : requests[i].body.context.depth = Some(1)

(***************************************************************************)
(* Properties of a chain of delegations, under SpecChain                   *)
(***************************************************************************)
\* the depth the request of hop number i carries
SentDepth(i) == Val(requests[i].body.context.depth)

\* the requests of a chain go out hop after hop, each with the depth of
\* the one before plus one, the first with the first caller's depth plus one
DepthUpOnePerHop ==
  \A i \in 1..Len(requests) :
    /\ requests[i].call = i
    /\ SentDepth(i) = IF i = 1 THEN CallerDepth(1) + 1 ELSE SentDepth(i - 1) + 1

\* the number of network calls of a chain is at most the ceiling plus one,
\* less the depth the first caller started from
BoundedByCeiling == Len(requests) + CallerDepth(1) <= MAX_DEPTH + 1

\* a hop sends nothing exactly when the depth it received is above the
\* ceiling, and it is then refused by the depth guard
HopPastBoundRefused ==
  \A c \in HopIds :
    Invoked(c) =>
      /\ RequestsOf(c) = 0 <=> CallerDepth(c) > MAX_DEPTH
      /\ RequestsOf(c) = 0 => RefusedForDepth(c)

\* C26: in a chain where every callee delegates with the context it
\* received, the depth goes up by exactly one per hop, the chain makes at
\* most MAX_DEPTH + 1 network calls even when the agents form a cycle, and
\* the hop after that is refused by the depth guard.
C26_ChainBoundedByDepth == DepthUpOnePerHop /\ BoundedByCeiling /\ HopPastBoundRefused

\* C26 witness: a chain started without a depth went round the cycle of
\* two agents, made MAX_DEPTH + 1 network calls, and its next hop was
\* refused.
C26_Witness ==
  /\ CallerContext(1) = Undefined
  /\ Len(requests) = MAX_DEPTH + 1
  /\ requests[1].endpoint = requests[3].endpoint
  /\ requests[2].endpoint = requests[4].endpoint
  /\ requests[1].endpoint # requests[2].endpoint
  /\ SentDepth(MAX_DEPTH + 1) = MAX_DEPTH + 1
  /\ RefusedForDepth(MAX_DEPTH + 2)

(***************************************************************************)
(* Properties of the ranking, under SpecRank                               *)
(***************************************************************************)
\* the number of the query's tokens that occur in the agent's search text
MatchCount(agent, tokens) ==
  Cardinality({k \in 1..Len(tokens) : Includes(SearchText(agent), tokens[k])})

\* the places of an agent in the result (none when it was not returned)
PlacesOf(results, agent) == {i \in 1..Len(results) : results[i].agent = agent}

\* whenever an agent that matches fewer tokens is returned, every listed
\* agent that matches more is returned too, and before it
MoreTokensRankFirst ==
  \A i \in 1..Len(LastCall.results), a \in 1..Len(LastCall.listed) :
    MatchCount(LastCall.listed[a], tokenize(LastCall.query))
        > MatchCount(LastCall.results[i].agent, tokenize(LastCall.query))
      => \E j \in PlacesOf(LastCall.results, LastCall.listed[a]) : j < i

\* the three agents of the test are registered and asked for
\* "web search indexing"
RankingScenario ==
  /\ {SearchAgent, CodeAgent, DataAgent} \subseteq {agents[n] : n \in DOMAIN agents}
  /\ LastCall.query = Q_WebSearchIndexing

TerminalEntryKept ==
  \A id \in DOMAIN delegations :
    delegations[id].status \in {"completed", "failed"}
      => /\ id \in DOMAIN delegations'
         /\ delegations'[id].status = delegations[id].status
         /\ delegations'[id].result = delegations[id].result
         /\ delegations'[id].error = delegations[id].error

\* C30: under every interleaving of the POST /v1/delegate handler and the
\* callback deliveries for the same delegation id, once the ledger entry is
\* completed or failed its status never changes again and its result and
\* error are not replaced.
C30_TerminalEntryNeverChanges == [][TerminalEntryKept]_vars

\* the deliveries for delegation id that were acknowledged with ok: true
Acknowledged(id) ==
  {h \in DeliveryIds : /\ deliveries[h].pc = "responded"
                       /\ deliveries[h].id = id
                       /\ deliveries[h].status = 200}

\* C31: among the callback deliveries posted for one delegation id, in any
\* interleaving, at most one is acknowledged with ok: true, and every other
\* delivery for that id that was answered got 409.
C31_AtMostOneDeliveryAcknowledged ==
  \A id \in CallbackIds :
    /\ Cardinality(Acknowledged(id)) <= 1
    /\ \A h \in DeliveryIds :
         (/\ Acknowledged(id) # {}
          /\ h \notin Acknowledged(id)
          /\ deliveries[h].pc = "responded"
          /\ deliveries[h].id = id) => deliveries[h].status = 409

\* the step in which a delivery arrives for an entry whose status is timeout
\* answers 409
TimedOutRejectsDelivery ==
  \A h \in DeliveryIds :
    (/\ deliveries[h].pc = "idle"
     /\ deliveries'[h].pc # "idle"
     /\ IsSome(getDelegation(delegations, deliveries'[h].id))
     /\ Val(getDelegation(delegations, deliveries'[h].id)).status = "timeout")
      => deliveries'[h].status = 409

\* an entry whose status is timeout keeps it in the step
TimedOutKept ==
  \A id \in DOMAIN delegations :
    delegations[id].status = "timeout"
      => (id \in DOMAIN delegations' /\ delegations'[id].status = "timeout")

\* C32: a ledger entry that reached status timeout is terminal: a callback
\* delivered afterwards for that id is answered 409 and the entry keeps the
\* status timeout.
C32_TimeoutIsTerminal == [][TimedOutRejectsDelivery /\ TimedOutKept]_vars

(***************************************************************************)
(* Properties of the choice of the target, under SpecServer                *)
(***************************************************************************)
\* every requirement of the request is covered by a grant of the agent
GrantsCoverAll(agent, requirements) ==
  \A i \in 1..Len(requirements) :
    \E j \in 1..Len(agent.resources) :
      uriMatches(agent.resources[j].uri, requirements[i].uri)

\* a request with a task that names a registered target and lists resources
NamedWithResources(route) ==
  /\ route.via = "http"
  /\ IsSome(route.body)
  /\ Truthy(Val(route.body).task)
  /\ Truthy(Val(route.body).targetName)
  /\ Val(Val(route.body).targetName) \in DOMAIN agents
  /\ HasRequirements(Val(route.body).resources)

\* C33: POST /v1/delegate with a targetName and a non-empty resources list
\* dispatches the task if and only if the grants of the named agent cover
\* every listed requirement, whatever the agent's capabilities (an empty
\* list included); otherwise it answers 403 without dispatching.
C33_NamedTargetDispatchedIffCovered ==
  \A k \in CallIds :
    (routes[k].pc # "idle" /\ NamedWithResources(routes[k])) =>
      IF GrantsCoverAll(agents[Val(Val(routes[k].body).targetName)],
                        Val(Val(routes[k].body).resources))
      THEN DelegationIdOf(k) \in DOMAIN delegations
      ELSE routes[k].status = 403 /\ DelegationIdOf(k) \notin DOMAIN delegations

\* a request with a task that gives a query and no target
QueryOnly(route) ==
  /\ route.via = "http"
  /\ IsSome(route.body)
  /\ Truthy(Val(route.body).task)
  /\ ~Truthy(Val(route.body).targetName)
  /\ Truthy(Val(route.body).query)

\* the agent matches a token of the query and covers every requirement
Eligible(agent, body) ==
  /\ SomeTokenOccurs(agent, tokenize(Val(body.query)))
  /\ HasRequirements(body.resources) => GrantsCoverAll(agent, Val(body.resources))

\* the score of an eligible agent in fifths of a token: the matched share of
\* the tokens, a fifth more when requirements are listed, at most one
FifthsOf(agent, body) ==
  LET n == Len(tokenize(Val(body.query)))
      raw == 5 * MatchCount(agent, tokenize(Val(body.query)))
               + (IF HasRequirements(body.resources) THEN n ELSE 0)
  IN  IF raw < 5 * n THEN raw ELSE 5 * n

\* no eligible agent scores higher, and none of equal score is listed before
BestFor(agent, body) ==
  /\ Eligible(agent, body)
  /\ \A n \in DOMAIN agents :
       (agents[n] # agent /\ Eligible(agents[n], body)) =>
         \/ FifthsOf(agent, body) > FifthsOf(agents[n], body)
         \/ /\ FifthsOf(agent, body) = FifthsOf(agents[n], body)
            /\ StrLess(agent.name, n)

\* C34: POST /v1/delegate with a query and no targetName dispatches to the
\* highest-scoring agent that matches the query and covers every required
\* resource, the first in registry order among equals, and answers 404
\* exactly when no agent matches and covers.
C34_QueryDispatchesToBestAgent ==
  \A k \in CallIds :
    (routes[k].pc # "idle" /\ QueryOnly(routes[k])) =>
      IF \E n \in DOMAIN agents : Eligible(agents[n], Val(routes[k].body))
      THEN /\ DelegationIdOf(k) \in DOMAIN delegations
           /\ delegations[DelegationIdOf(k)].target_agent \in DOMAIN agents
           /\ BestFor(agents[delegations[DelegationIdOf(k)].target_agent],
                      Val(routes[k].body))
           /\ routes[k].status # 404
      ELSE routes[k].status = 404 /\ DelegationIdOf(k) \notin DOMAIN delegations

\* C34 witness: the agent listed second was chosen because it matches more of
\* the query, while another agent matching the query was listed first.
C34_Witness ==
  \E k \in CallIds :
    /\ routes[k].pc # "idle"
    /\ QueryOnly(routes[k])
    /\ DelegationIdOf(k) \in DOMAIN delegations
    /\ delegations[DelegationIdOf(k)].target_agent = A_two
    /\ Eligible(agents[A_one], Val(routes[k].body))

(***************************************************************************)
(* Properties of the matched grants and the boost, under SpecDiscover      *)
(***************************************************************************)
\* the grant is the first of the agent's grants that covers the requirement
FirstCoveringGrant(agent, grant, req) ==
  \E j \in 1..Len(agent.resources) :
    /\ agent.resources[j] = grant
    /\ uriMatches(grant.uri, req.uri)
    /\ \A i \in 1..(j - 1) : ~uriMatches(agent.resources[i].uri, req.uri)

\* min(matched / tokens + fifths / 5, 1) as a fraction
ShareOfTokensPlus(agent, tokens, fifths) ==
  LET raw == 5 * MatchCount(agent, tokens) + fifths * Len(tokens)
  IN  [num |-> IF raw < 5 * Len(tokens) THEN raw ELSE 5 * Len(tokens),
       den |-> 5 * Len(tokens)]

\* one grant per requirement, in requirement order, and the full boost
OneGrantPerRequirement ==
  \A i \in 1..Len(LastCall.results) :
    LET entry == LastCall.results[i]
        reqs == Val(LastCall.requiredResources)
    IN  /\ Len(entry.matchedResources) = Len(reqs)
        /\ \A k \in 1..Len(reqs) :
             FirstCoveringGrant(entry.agent, entry.matchedResources[k], reqs[k])
        /\ ScoreEqual(entry.score,
                      ShareOfTokensPlus(entry.agent, tokenize(LastCall.query), 1))

\* the number of entries the limit leaves of n
LeftByLimit(n, limit) ==
  IF IsSome(limit) /\ Val(limit) > 0 /\ Val(limit) < n THEN Val(limit) ELSE n

\* no agent is dropped for its grants, no grant is reported, no boost
NoRequirementNoBoost ==
  /\ Len(LastCall.results)
       = LeftByLimit(Cardinality({j \in 1..Len(LastCall.listed) :
                                    SomeTokenOccurs(LastCall.listed[j],
                                                    tokenize(LastCall.query))}),
                     LastCall.limit)
  /\ \A i \in 1..Len(LastCall.results) :
       /\ LastCall.results[i].matchedResources = <<>>
       /\ ScoreEqual(LastCall.results[i].score,
                     ShareOfTokensPlus(LastCall.results[i].agent,
                                       tokenize(LastCall.query), 0))

\* C35: with a non-empty requirement list every returned agent's
\* matchedResources holds exactly one grant per requirement, in requirement
\* order, the agent's first covering grant (repeated when one grant covers
\* several), and its score is min(capability score + 0.2, 1); with an absent
\* or empty list no agent is filtered, matchedResources is empty and the
\* score is the capability score.
C35_OneGrantPerRequirementFullBoost ==
  Called => IF CalledWithRequirements THEN OneGrantPerRequirement ELSE NoRequirementNoBoost

\* C35 witness: an agent with two grants covering the first requirement was
\* returned with its first grant for it, and an agent was returned with one
\* grant repeated for two requirements.
C35_Witness ==
  /\ CalledWithRequirements
  /\ LastCall.requiredResources
       = Some(<<[uri |-> U_file_h1_a_ab], [uri |-> U_file_h1_a_glob]>>)
  /\ \E i \in 1..Len(LastCall.results) :
       /\ LastCall.results[i].agent.resources
            = <<[uri |-> U_file_h1_a_ab], [uri |-> U_file_h1_a_glob]>>
       /\ LastCall.results[i].matchedResources = LastCall.results[i].agent.resources
  /\ \E i \in 1..Len(LastCall.results) :
       LastCall.results[i].matchedResources
         = <<[uri |-> U_file_h1_a_glob], [uri |-> U_file_h1_a_glob]>>

(***************************************************************************)
(* Properties of the returned outcome, under SpecClient                    *)
(***************************************************************************)
\* success goes with completed and accepted, an error with the lack of it
WellFormed(outcome) ==
  /\ outcome.status \in {"completed", "accepted", "failed", "timeout"}
  /\ outcome.success = (outcome.status \in {"completed", "accepted"})
  /\ IsSome(outcome.error) = (outcome.success = FALSE)
  /\ outcome.latencyMs \in Nat

\* C36: every outcome delegate returns is well-formed: success is true
\* exactly when the status is completed or accepted, error is present exactly
\* when success is false, and latencyMs is a non-negative number, 0 when the
\* depth guard fired.
C36_OutcomeWellFormed ==
  \A c \in CallIds :
    Returned(c) =>
      /\ WellFormed(OutcomeOf(c))
      /\ CallerDepth(c) > MAX_DEPTH => OutcomeOf(c).latencyMs = 0

\* C36 witness: a call answered with a status outside 200..299 returned
\* failed with an error and the time it took.
C36_Witness ==
  \E c \in CallIds :
    /\ Returned(c)
    /\ RequestsOf(c) = 1
    /\ OutcomeOf(c).status = "failed"
    /\ IsSome(OutcomeOf(c).error)
    /\ StartsWith(Val(OutcomeOf(c).error), <<"A", "g", "e", "n", "t">>)
    /\ OutcomeOf(c).latencyMs = MaxElapsed

(***************************************************************************)
(* Properties of an applied callback delivery, under SpecServer            *)
(***************************************************************************)
\* the body of the delivery is a JSON object whose status is "failed"
SaysFailed(text) ==
  /\ JSONParse(text).ok
  /\ ~JSONParse(text).value.null
  /\ Member(JSONParse(text).value, <<"s", "t", "a", "t", "u", "s">>)
       = Some(<<"f", "a", "i", "l", "e", "d">>)

\* a delivery answered with ok: true in this step has set the status of its
\* entry from its body
AppliedSetsStatus ==
  \A h \in DeliveryIds :
    (/\ deliveries[h].pc # "responded"
     /\ deliveries'[h].pc = "responded"
     /\ deliveries'[h].status = 200)
      => /\ deliveries'[h].id \in DOMAIN delegations'
         /\ delegations'[deliveries'[h].id].status
              = IF SaysFailed(Val(deliveries'[h].body)) THEN "failed" ELSE "completed"

\* a delivery answered 404 or 400 in this step has left the ledger as it was
RefusedLeavesLedger ==
  \A h \in DeliveryIds :
    (/\ deliveries[h].pc # "responded"
     /\ deliveries'[h].pc = "responded"
     /\ deliveries'[h].status \in {400, 404})
      => delegations' = delegations

\* C37: an applied callback delivery sets the ledger status to failed when
\* the body's status is "failed" and to completed for every other body; a
\* delivery for an unknown id (404) or with an unparseable body (400) leaves
\* the whole ledger unchanged.
C37_CallbackSetsFailedOrCompleted == [][AppliedSetsStatus /\ RefusedLeavesLedger]_vars

\* C37 witness: a delivery whose body has no status was applied to an entry
\* and was acknowledged, and the entry is completed.
C37_Witness ==
  \E h \in DeliveryIds :
    /\ deliveries[h].pc = "responded"
    /\ deliveries[h].status = 200
    /\ deliveries[h].body = Some(D_empty)
    /\ delegations[deliveries[h].id].status = "completed"

(***************************************************************************)
(* Properties of the answers that hold agents, under SpecRead              *)
(***************************************************************************)
\* the descriptor shows of the agent's auth nothing but its type
OnlyAuthType(descriptor) ==
  IsSome(descriptor.auth) => DOMAIN Val(descriptor.auth) = {"type"}

\* C38: no agent descriptor returned by GET /v1/agents, GET /v1/agents/:name,
\* GET /v1/discover or the mesh_discover tool contains a stored credential
\* token or header name: at most the auth type is exposed.
C38_NoCredentialInAnswers ==
  IsSome(lastResponse) =>
    \A i \in 1..Len(Val(lastResponse).agents) : OnlyAuthType(Val(lastResponse).agents[i])

\* the same for the three HTTP routes alone
NoCredentialInHttpAnswers ==
  (IsSome(lastResponse) /\ Val(lastResponse).via # "mesh_discover") =>
    \A i \in 1..Len(Val(lastResponse).agents) : OnlyAuthType(Val(lastResponse).agents[i])

(***************************************************************************)
(* Properties of the ledger's frame, under SpecLedgerRegistry              *)
(***************************************************************************)
\* the step is a call of updateDelegation
UpdateCalled ==
  /\ IsSome(lastWrite')
  /\ Val(lastWrite').n = Writes + 1
  /\ Val(lastWrite').op = "updateDelegation"

\* the column holds the value the update supplies, the stored one without
Replaced(new, old, supplied) == new = (IF IsSome(supplied) THEN supplied ELSE old)

\* a call that returned has written the entry of its id and nothing else; a
\* call for an id the ledger does not hold returned false and wrote nothing
UpdateIsLocal ==
  (UpdateCalled /\ ~Val(lastWrite').threw) =>
    LET id == Val(lastWrite').data.id
        u == Val(lastWrite').data.update
    IN  /\ DOMAIN delegations' = DOMAIN delegations
        /\ \A i \in DOMAIN delegations \ {id} : delegations'[i] = delegations[i]
        /\ agents' = agents
        /\ Val(lastWrite').returned = (id \in DOMAIN delegations)
        /\ id \in DOMAIN delegations =>
             /\ delegations'[id].status = u.status
             /\ Replaced(delegations'[id].result, delegations[id].result, u.result)
             /\ Replaced(delegations'[id].error, delegations[id].error, u.error)
             /\ Replaced(delegations'[id].latency_ms, delegations[id].latency_ms, u.latency_ms)
             /\ delegations'[id].source_agent = delegations[id].source_agent
             /\ delegations'[id].target_agent = delegations[id].target_agent
             /\ delegations'[id].task = delegations[id].task

\* every entry of the ledger is still in the ledger after the step
NoEntryRemoved == DOMAIN delegations \subseteq DOMAIN delegations'

\* C39: the ledger is append-only and updates are local: updateDelegation(id,
\* u) modifies only the entry with that id (it sets status, and replaces
\* result, error and latency only when u supplies them), leaves every other
\* entry and all agent records unchanged, returns false and creates nothing
\* for an unknown id, and no operation, unregistering an agent included,
\* removes a ledger entry.
C39_LedgerAppendOnlyUpdatesLocal == [][UpdateIsLocal /\ NoEntryRemoved]_vars

\* C39 witness: the target of an entry was unregistered and the entry is
\* still there, a later update of another id having returned false.
C39_Witness ==
  /\ DelegationIdOf(1) \in DOMAIN delegations
  /\ delegations[DelegationIdOf(1)].target_agent \notin DOMAIN agents
  /\ DelegationIdOf(2) \notin DOMAIN delegations
  /\ IsSome(lastWrite)
  /\ Val(lastWrite).op = "updateDelegation"
  /\ Val(lastWrite).data.id = DelegationIdOf(2)
  /\ ~Val(lastWrite).returned

=============================================================================
